---------------------------- MODULE Spec2Model ----------------------------
(***************************************************************************)
(* A model of the miditool music generation pipeline                       *)
(* (src/src/pipeline.ts, src/src/midi.ts, src/src/llm.ts,                  *)
(* src/tools/validate-midi-hex.ts).                                        *)
(*                                                                         *)
(* Text is a sequence of one-character strings; bytes are sequences of     *)
(* naturals below 256.  The pure helpers (codec, extractor, classifier)    *)
(* are operators computed the way the TypeScript computes them; the        *)
(* orchestrator (generateClip, generateClipTwoPhase) is a state machine    *)
(* with one action per resumption of an async call.                        *)
(***************************************************************************)
EXTENDS Integers, Sequences, FiniteSets, TLC

(***************************************************************************)
(* JavaScript string primitives                                            *)
(***************************************************************************)

\* The characters matched by \s in a JavaScript regular expression and
\* removed by String.prototype.trim (those that occur in the modelled texts).
WhiteSpace == {" ", "\n", "\t", "\r"}

\* The grave accent character (it cannot be written in a TLA+ string).
Backtick == "<grave accent>"

DigitChars == <<"0","1","2","3","4","5","6","7","8","9">>

UpperChars ==
  <<"A","B","C","D","E","F","G","H","I","J","K","L","M",
    "N","O","P","Q","R","S","T","U","V","W","X","Y","Z">>

LowerChars ==
  <<"a","b","c","d","e","f","g","h","i","j","k","l","m",
    "n","o","p","q","r","s","t","u","v","w","x","y","z">>

Range(f) == {f[i] : i \in DOMAIN f}

Min(S) == CHOOSE x \in S : \A y \in S : x <= y

PosIn(seq, ch) == CHOOSE i \in DOMAIN seq : seq[i] = ch

\* String.prototype.toUpperCase / toLowerCase, character by character.
UpperChar(ch) == IF ch \in Range(LowerChars) THEN UpperChars[PosIn(LowerChars, ch)] ELSE ch

LowerChar(ch) == IF ch \in Range(UpperChars) THEN LowerChars[PosIn(UpperChars, ch)] ELSE ch

toUpperCase(s) == [i \in DOMAIN s |-> UpperChar(s[i])]

toLowerCase(s) == [i \in DOMAIN s |-> LowerChar(s[i])]

\* String.prototype.indexOf(pat, from): the 0-based offset of the first
\* occurrence of pat at or after from, or -1.
indexOf(s, pat, from) ==
  LET start == IF from > Len(s) THEN Len(s) ELSE from
      hits  == {i \in start..(Len(s) - Len(pat)) : SubSeq(s, i + 1, i + Len(pat)) = pat}
  IN  IF hits = {} THEN -1 ELSE Min(hits)

includes(s, pat) == indexOf(s, pat, 0) # -1

startsWith(s, pat) == Len(s) >= Len(pat) /\ SubSeq(s, 1, Len(pat)) = pat

\* String.prototype.slice(from, to) with 0-based offsets, 0 <= from.
slice(s, from, to) == SubSeq(s, from + 1, to)

\* String.prototype.trim.
trim(s) ==
  LET keep == {i \in DOMAIN s : s[i] \notin WhiteSpace}
  IN  IF keep = {} THEN <<>>
      ELSE SubSeq(s, Min(keep), CHOOSE i \in keep : \A j \in keep : j <= i)

(***************************************************************************)
(* The hex/binary codec (src/src/midi.ts)                                  *)
(***************************************************************************)

HexChars == Range(DigitChars) \cup {"a","b","c","d","e","f"} \cup {"A","B","C","D","E","F"}

\* The value of one hexadecimal digit.
HexValue(ch) ==
  IF ch \in Range(DigitChars) THEN PosIn(DigitChars, ch) - 1
  ELSE 9 + PosIn(UpperChars, UpperChar(ch))

\* parseInt(group, 16) of a two-character group without white space:
\* an optional sign, an optional 0x prefix, then the longest prefix of
\* hexadecimal digits; NaN when that prefix is empty.
parseInt16(c1, c2) ==
  LET NaN    == [isNaN |-> TRUE, value |-> 0]
      Num(n) == [isNaN |-> FALSE, value |-> n]
  IN  IF c1 \in {"+", "-"}
        THEN IF c2 \in HexChars
               THEN (IF c1 = "-" THEN Num(0 - HexValue(c2)) ELSE Num(HexValue(c2)))
               ELSE NaN
      ELSE IF c1 = "0" /\ c2 \in {"x", "X"} THEN NaN
      ELSE IF c1 \notin HexChars THEN NaN
      ELSE IF c2 \notin HexChars THEN Num(HexValue(c1))
      ELSE Num(16 * HexValue(c1) + HexValue(c2))

\* The conversion of a number stored into a Uint8Array element.
ToUint8(n) == n % 256

\* Mutant of StripWhiteSpace: only spaces are removed.
StripWhiteSpace_SpacesOnly(s) == SelectSeq(s, LAMBDA ch : ch # " ")

\* hexString.replace(/[\s\n]+/g, "")
StripWhiteSpace(s) == SelectSeq(s, LAMBDA ch : ch \notin WhiteSpace)

\* hexToBytes: [ok |-> TRUE, bytes |-> ...] or the error it throws.
hexToBytes(hexString) ==
  LET cleanHex == StripWhiteSpace(hexString)
      groups   == Len(cleanHex) \div 2
      value(k) == parseInt16(cleanHex[2 * k - 1], cleanHex[2 * k])
  IN  IF Len(cleanHex) % 2 # 0
        THEN [ok |-> FALSE, error |-> "Hex string must have an even number of characters"]
      ELSE IF \E k \in 1..groups : value(k).isNaN
        THEN [ok |-> FALSE, error |-> "Invalid hex sequence"]
      ELSE [ok |-> TRUE, bytes |-> [k \in 1..groups |-> ToUint8(value(k).value)]]

HexDigitLower == <<"0","1","2","3","4","5","6","7","8","9","a","b","c","d","e","f">>

\* Mutant of bytesToHex: no padStart(2, "0").
bytesToHex_NoPadding(bytes) ==
  LET digits(b) == IF b < 16 THEN <<HexDigitLower[b + 1]>>
                   ELSE <<HexDigitLower[(b \div 16) + 1], HexDigitLower[(b % 16) + 1]>>
      F[i \in 0..Len(bytes)] ==
        IF i = 0 THEN <<>>
        ELSE (IF i = 1 THEN <<>> ELSE Append(F[i - 1], " ")) \o digits(bytes[i])
  IN  F[Len(bytes)]

\* bytesToHex: two lower-case digits per byte, joined by one space.
bytesToHex(bytes) ==
  LET F[i \in 0..Len(bytes)] ==
        IF i = 0 THEN <<>>
        ELSE (IF i = 1 THEN <<>> ELSE Append(F[i - 1], " "))
               \o <<HexDigitLower[(bytes[i] \div 16) + 1], HexDigitLower[(bytes[i] % 16) + 1]>>
  IN  F[Len(bytes)]

\* "MThd" as character codes.
MThdBytes == <<77, 84, 104, 100>>

\* Mutant of isValidMidi: only the first byte of the header is compared.
isValidMidi_FirstByteOnly(bytes) ==
  IF Len(bytes) < 4 THEN FALSE ELSE bytes[1] = 77

isValidMidi(bytes) ==
  IF Len(bytes) < 4 THEN FALSE ELSE SubSeq(bytes, 1, 4) = MThdBytes

(***************************************************************************)
(* The response extractor (MusicGenerationPipeline.extractMidiHex)         *)
(***************************************************************************)

MThdUpper == <<"4","D"," ","5","4"," ","6","8"," ","6","4">>

MThdLower == <<"4","d"," ","5","4"," ","6","8"," ","6","4">>

MTrkUpper == <<"4","D"," ","5","4"," ","7","2"," ","6","B">>

endMarkers ==
  << <<Backtick,Backtick,Backtick>>,
     <<"N","o","t","e",":">>,
     <<"T","h","i","s"," ","M","I","D","I"," ","f","i","l","e">>,
     <<"I","'","v","e"," ","g","e","n","e","r","a","t","e","d">>,
     <<"T","h","e"," ","a","b","o","v","e"," ","M","I","D","I">>,
     <<"\n","\n">> >>

\* midiHex.replace(/[^0-9A-Fa-f\s]/g, "")
RemoveNonHex(s) == SelectSeq(s, LAMBDA ch : ch \in HexChars \cup WhiteSpace)

\* midiHex.replace(/\s+/g, " ")
CollapseWhiteSpace(s) ==
  LET F[i \in 0..Len(s)] ==
        IF i = 0 THEN <<>>
        ELSE IF s[i] \notin WhiteSpace THEN Append(F[i - 1], s[i])
        ELSE IF i > 1 /\ s[i - 1] \in WhiteSpace THEN F[i - 1]
        ELSE Append(F[i - 1], " ")
  IN  F[Len(s)]

\* The offset at which the extracted text ends: the earliest end marker
\* found at or after midiHeaderIndex + 10, or the end of the response.
EndIndex(response, midiHeaderIndex) ==
  LET found == {indexOf(response, endMarkers[k], midiHeaderIndex + 10) : k \in DOMAIN endMarkers}
                 \ {-1}
  IN  Min(found \cup {Len(response)})

\* Mutant of extractMidiHex: the lower-case header is not looked for.
extractMidiHex_UpperOnly(response) ==
  LET midiHeaderIndex == indexOf(response, MThdUpper, 0)
  IN  IF midiHeaderIndex = -1
        THEN [ok |-> FALSE, error |-> "No valid MIDI data found in the response"]
        ELSE [ok |-> TRUE,
              hex |-> CollapseWhiteSpace(RemoveNonHex(
                        trim(slice(response, midiHeaderIndex,
                                   EndIndex(response, midiHeaderIndex)))))]

\* Mutant of extractMidiHex: the lower-case header is used when it comes
\* before the upper-case one.
extractMidiHex_EarliestHeader(response) ==
  LET midiHeaderIndex == indexOf(response, MThdUpper, 0)
      lowerCaseIndex  == indexOf(response, MThdLower, 0)
  IN  IF midiHeaderIndex = -1 \/ (lowerCaseIndex # -1 /\ lowerCaseIndex < midiHeaderIndex)
        THEN IF lowerCaseIndex = -1
               THEN [ok |-> FALSE, error |-> "No valid MIDI data found in the response"]
               ELSE [ok |-> TRUE, hex |-> trim(slice(response, lowerCaseIndex, Len(response)))]
        ELSE [ok |-> TRUE,
              hex |-> CollapseWhiteSpace(RemoveNonHex(
                        trim(slice(response, midiHeaderIndex,
                                   EndIndex(response, midiHeaderIndex)))))]

\* extractMidiHex: [ok |-> TRUE, hex |-> ...] or the error it throws.
extractMidiHex(response) ==
  LET midiHeaderIndex == indexOf(response, MThdUpper, 0)
      lowerCaseIndex  == indexOf(response, MThdLower, 0)
  IN  IF midiHeaderIndex = -1
        THEN IF lowerCaseIndex = -1
               THEN [ok |-> FALSE, error |-> "No valid MIDI data found in the response"]
               ELSE [ok |-> TRUE, hex |-> trim(slice(response, lowerCaseIndex, Len(response)))]
        ELSE [ok |-> TRUE,
              hex |-> CollapseWhiteSpace(RemoveNonHex(
                        trim(slice(response, midiHeaderIndex,
                                   EndIndex(response, midiHeaderIndex)))))]

(***************************************************************************)
(* The critical-issue classifier                                           *)
(* (MusicGenerationPipeline.checkForCriticalIssues)                        *)
(***************************************************************************)

criticalIssueKeywords ==
  << <<"m","i","s","s","i","n","g"," ","n","o","t","e","-","o","f","f">>,
     <<"n","o"," ","n","o","t","e","-","o","f","f">>,
     <<"n","o","t","e","-","o","n"," ","a","n","d"," ","n","o","t","e","-","o","f","f"," ","m","i","s",
       "m","a","t","c","h">>,
     <<"n","o","t"," ","p","r","o","p","e","r","l","y"," ","p","a","i","r","e","d">>,
     <<"n","o","t","e","-","o","f","f"," ","e","v","e","n","t","s"," ","d","o"," ","n","o","t"," ","m",
       "a","t","c","h">>,
     <<"n","o","t"," ","c","o","r","r","e","c","t","l","y"," ","p","a","i","r","e","d">>,
     <<"n","o","t"," ","b","e"," ","t","u","r","n","e","d"," ","o","f","f"," ","p","r","o","p","e","r",
       "l","y">>,
     <<"l","a","c","k"," ","o","f"," ","n","o","t","e","-","o","f","f">>,
     <<"w","i","t","h","o","u","t"," ","n","o","t","e","-","o","f","f">>,
     <<"n","o"," ","c","o","r","r","e","s","p","o","n","d","i","n","g"," ","n","o","t","e","-","o","f",
       "f">>,
     <<"n","o","t","e","s"," ","t","o"," ","p","l","a","y"," ","f","o","r","e","v","e","r">>,
     <<"i","m","p","r","o","p","e","r"," ","n","o","t","e"," ","p","a","i","r","i","n","g">>,
     <<"i","n","c","o","r","r","e","c","t"," ","c","h","a","n","n","e","l">>,
     <<"i","n","c","o","r","r","e","c","t"," ","n","o","t","e">>,
     <<"i","n","v","a","l","i","d"," ","h","e","a","d","e","r">>,
     <<"c","o","r","r","u","p","t">>,
     <<"w","i","l","l"," ","n","o","t"," ","p","l","a","y">>,
     <<"c","a","n","n","o","t"," ","p","l","a","y">>,
     <<"p","l","a","y","b","a","c","k"," ","i","s","s","u","e">>,
     <<"c","r","i","t","i","c","a","l"," ","e","r","r","o","r">>,
     <<"s","e","v","e","r","e"," ","i","s","s","u","e">>,
     <<"i","n","c","o","r","r","e","c","t"," ","f","o","r","m","a","t">> >>

SameNotePhrase ==
  <<"n","o","t","e","-","o","n"," ","e","v","e","n","t","s"," ","f","o","r"," ","t","h","e"," ","s",
    "a","m","e"," ","n","o","t","e"," ","w","i","t","h","o","u","t"," ","c","o","r","r","e","s","p",
    "o","n","d","i","n","g"," ","n","o","t","e","-","o","f","f"," ","e","v","e","n","t","s">>

Txt_track_length == <<"t","r","a","c","k"," ","l","e","n","g","t","h">>

Txt_miscalculated == <<"m","i","s","c","a","l","c","u","l","a","t","e","d">>

Txt_incorrect == <<"i","n","c","o","r","r","e","c","t">>

Txt_wrong == <<"w","r","o","n","g">>

Txt_mismatch == <<"m","i","s","m","a","t","c","h">>

Txt_note == <<"n","o","t","e">>

Txt_turned_on == <<"t","u","r","n","e","d"," ","o","n">>

Txt_without == <<"w","i","t","h","o","u","t">>

Txt_turned_off == <<"t","u","r","n","e","d"," ","o","f","f">>

\* Mutant of checkForCriticalIssues: the report is not lower-cased.
checkForCriticalIssues_CaseSensitive(validationReport) ==
  LET lowerReport   == validationReport
      criticalFound == \E k \in DOMAIN criticalIssueKeywords :
                          includes(lowerReport, criticalIssueKeywords[k])
  IN  IF includes(lowerReport, SameNotePhrase) THEN TRUE
      ELSE IF includes(lowerReport, Txt_track_length)
                /\ (includes(lowerReport, Txt_miscalculated) \/ includes(lowerReport, Txt_incorrect)
                      \/ includes(lowerReport, Txt_wrong) \/ includes(lowerReport, Txt_mismatch))
        THEN TRUE
      ELSE IF includes(lowerReport, Txt_note) /\ includes(lowerReport, Txt_turned_on)
                /\ includes(lowerReport, Txt_without) /\ includes(lowerReport, Txt_turned_off)
        THEN TRUE
      ELSE criticalFound

\* Mutant of checkForCriticalIssues: a listed phrase counts only at the start
\* of the report.
checkForCriticalIssues_AtStart(validationReport) ==
  LET lowerReport   == toLowerCase(validationReport)
      criticalFound == \E k \in DOMAIN criticalIssueKeywords :
                          startsWith(trim(lowerReport), criticalIssueKeywords[k])
  IN  IF includes(lowerReport, SameNotePhrase) THEN TRUE
      ELSE IF includes(lowerReport, Txt_track_length)
                /\ (includes(lowerReport, Txt_miscalculated) \/ includes(lowerReport, Txt_incorrect)
                      \/ includes(lowerReport, Txt_wrong) \/ includes(lowerReport, Txt_mismatch))
        THEN TRUE
      ELSE IF includes(lowerReport, Txt_note) /\ includes(lowerReport, Txt_turned_on)
                /\ includes(lowerReport, Txt_without) /\ includes(lowerReport, Txt_turned_off)
        THEN TRUE
      ELSE criticalFound

checkForCriticalIssues(validationReport) ==
  LET lowerReport   == toLowerCase(validationReport)
      criticalFound == \E k \in DOMAIN criticalIssueKeywords :
                          includes(lowerReport, criticalIssueKeywords[k])
  IN  IF includes(lowerReport, SameNotePhrase) THEN TRUE
      ELSE IF includes(lowerReport, Txt_track_length)
                /\ (includes(lowerReport, Txt_miscalculated) \/ includes(lowerReport, Txt_incorrect)
                      \/ includes(lowerReport, Txt_wrong) \/ includes(lowerReport, Txt_mismatch))
        THEN TRUE
      ELSE IF includes(lowerReport, Txt_note) /\ includes(lowerReport, Txt_turned_on)
                /\ includes(lowerReport, Txt_without) /\ includes(lowerReport, Txt_turned_off)
        THEN TRUE
      ELSE criticalFound

(***************************************************************************)
(* Sample inputs: the project context and the texts the collaborators      *)
(* may answer with                                                         *)
(***************************************************************************)

\* Number of generateClip / generateClipTwoPhase calls a client may launch.
NumCalls == 2

\* The maxRetries argument of generateClipTwoPhase ranges over 0..MaxRetriesBound.
MaxRetriesBound == 3

\* llm.ts: maximum retries for LLM calls.
MAX_RETRIES == 3

\* llm.ts: retry backoff in ms.
RETRY_BACKOFF == 1000

\* DEFAULT_CONFIG.maxConcurrentRequests
DefaultMaxConcurrentRequests == 2

Calls == 1..NumCalls

\* Byte arrays given to bytesToHex have at most MaxBytesLen bytes.
MaxBytesLen == 2

\* Hex texts given to hexToBytes have at most MaxHexLen characters.
MaxHexLen == 4

\* Byte arrays given to saveMidiFile have at most MaxMidiLen bytes.
MaxMidiLen == 5

\* Responses given to extractMidiHex are made of at most MaxFragments fragments.
MaxFragments == 4

\* Reports given to checkForCriticalIssues are made of at most MaxPhrases phrases.
MaxPhrases == 4

\* DEFAULT_STAGES, by name; config.stages may hold a prefix of it.
DEFAULT_STAGES == <<"idea-generation", "midi-generation">>

StageConfigs == {SubSeq(DEFAULT_STAGES, 1, n) : n \in 0..2}

\* buildContext(project, group, track, clip) for the sample project.
Context == <<"c","t","x">>

IdeaRiff == <<"r","i","f","f">>

IdeaWaltz == <<"w","a","l","t","z">>

\* A complete file in upper case, wrapped in prose.
RespValidA ==
  <<"o","k"," ","4","D"," ","5","4"," ","6","8"," ","6","4"," ","0","0"," ","0","0"," ","0","0"," ",
    "0","6"," ","0","0"," ","0","1"," ","4","D"," ","5","4"," ","7","2"," ","6","B","\n","\n","N",
    "o","t","e",":"," ","x">>

\* A complete file in lower case.
RespValidB ==
  <<"4","d"," ","5","4"," ","6","8"," ","6","4"," ","0","0"," ","0","0"," ","0","0"," ","0","6"," ",
    "0","0"," ","0","2"," ","4","d"," ","5","4"," ","7","2"," ","6","b">>

\* No MIDI header at all.
RespNoMidi == <<"S","o","r","r","y">>

\* A lower-case file followed by prose.
RespLowerProse ==
  <<"4","d"," ","5","4"," ","6","8"," ","6","4"," ","0","0"," ","0","0"," ","0","0"," ","0","6"," ",
    "0","0"," ","0","1"," ","4","d"," ","5","4"," ","7","2"," ","6","b"," ","o","k">>

\* An odd number of hex digits.
RespOddDigits ==
  <<"4","D"," ","5","4"," ","6","8"," ","6","4"," ","0","0"," ","0","0"," ","0","0"," ","0","6"," ",
    "0","0"," ","0","1"," ","4","D"," ","5","4"," ","7","2"," ","6","B"," ","0">>

\* A header chunk without a track chunk.
RespNoTrack ==
  <<"4","D"," ","5","4"," ","6","8"," ","6","4"," ","0","0"," ","0","0"," ","0","0"," ","0","6"," ",
    "0","0"," ","0","1"," ","0","0"," ","0","1"," ","0","0"," ","6","0">>

\* The two chunk magics only: 8 bytes.
RespShort == <<"4","D"," ","5","4"," ","6","8"," ","6","4"," ","4","D"," ","5","4"," ","7","2"," ","6","B">>

ReportMismatch == <<"t","r","a","c","k"," ","l","e","n","g","t","h"," ","m","i","s","m","a","t","c","h">>

ReportCorrupt == <<"c","o","r","r","u","p","t">>

ReportFine == <<"l","o","o","k","s"," ","f","i","n","e">>

AllIdeaTexts == {IdeaRiff, IdeaWaltz}

AllMidiTexts ==
  {RespValidA, RespValidB, RespNoMidi, RespLowerProse, RespOddDigits, RespNoTrack, RespShort}

AllReportTexts == {ReportMismatch, ReportCorrupt, ReportFine}

\* createTestMidiFile: the template literal it decodes.
TestMidiHex ==
  <<"\n"," "," "," "," ","4","D"," ","5","4"," ","6","8"," ","6","4"," ","0","0"," ","0","0"," ",
    "0","0"," ","0","6"," ","0","0"," ","0","1"," ","0","0"," ","0","1"," ","0","1"," ","E","0"," ",
    "\n"," "," "," "," ","4","D"," ","5","4"," ","7","2"," ","6","B"," ","0","0"," ","0","0"," ",
    "0","0"," ","1","4"," ","\n"," "," "," "," ","0","0"," ","9","0"," ","3","C"," ","6","4"," ",
    "\n"," "," "," "," ","8","3"," ","6","0"," ","8","0"," ","3","C"," ","0","0"," ","\n"," "," ",
    " "," ","0","0"," ","F","F"," ","2","F"," ","0","0","\n"," "," ">>

\* Sequences over S of length at most n.
SeqsUpTo(S, n) == UNION {[1..k -> S] : k \in 0..n}

\* Byte arrays: every array of at most one byte, and longer ones over a few
\* values.
ByteSamples == {0, 9, 10, 15, 16, 77, 160, 255}

\* Byte arrays around the MThd magic: its four bytes, a zero and a
\* lower-case "m", in every order.
MidiByteSamples == {77, 84, 104, 100, 0, 109}

ByteInputs ==
  SeqsUpTo(0..255, 1) \cup SeqsUpTo(ByteSamples, MaxBytesLen)
    \cup SeqsUpTo(MidiByteSamples, MaxMidiLen)

\* Hex texts: upper- and lower-case digits, a letter that is no hex digit, a
\* sign, a space and a line break.
HexAlphabet == {"4", "D", "f", "G", "-", " ", "\n"}

HexInputs == SeqsUpTo(HexAlphabet, MaxHexLen) \cup {TestMidiHex}

\* The concatenation of a sequence of texts.
Flatten(texts) ==
  LET F[i \in 0..Len(texts)] == IF i = 0 THEN <<>> ELSE F[i - 1] \o texts[i]
  IN  F[Len(texts)]

\* What an LLM response is made of: prose, the header in either case, a
\* byte, end markers, a word without hex digits.
ResponseFragments ==
  { <<"o","k"," ">>,
    MThdUpper,
    MThdLower,
    <<" ","0","0">>,
    <<" ","x">>,
    <<"\n","\n">>,
    <<"N","o","t","e",":">>,
    <<Backtick,Backtick,Backtick>> }

ResponseInputs == {Flatten(texts) : texts \in SeqsUpTo(ResponseFragments, MaxFragments)}

\* What a validation report is made of: the words of the heuristics and a
\* keyword, some capitalised.
ReportPhrases ==
  { <<"n","o","t","e">>,
    <<" ","t","u","r","n","e","d"," ","o","n">>,
    <<" ","w","i","t","h","o","u","t">>,
    <<" ","t","u","r","n","e","d"," ","o","f","f">>,
    <<" ","T","r","a","c","k"," ","L","e","n","g","t","h">>,
    <<" ","w","r","o","n","g">>,
    <<" ","C","o","r","r","u","p","t">> }

\* Each phrase the classifier looks for, as a report of its own.
KeywordReports ==
  Range(criticalIssueKeywords) \cup {SameNotePhrase}
    \cup {Txt_track_length \o <<" ">> \o word :
            word \in {Txt_miscalculated, Txt_incorrect, Txt_wrong, Txt_mismatch}}

ReportInputs ==
  {Flatten(texts) : texts \in SeqsUpTo(ReportPhrases, MaxPhrases)} \cup KeywordReports

\* `${context}\n\nMusical idea: ${idea}\n\nGenerate a MIDI file for this idea.`
contextWithIdea(idea) ==
  Context \o <<"\n","\n","M","u","s","i","c","a","l"," ","i","d","e","a",":"," ">> \o idea
    \o <<"\n","\n","G","e","n","e","r","a","t","e"," ","a"," ","M","I","D","I"," ","f","i","l","e"," ",
       "f","o","r"," ","t","h","i","s"," ","i","d","e","a",".">>

\* The prompt of a retry: contextWithIdea followed by the previous report.
FeedbackPrompt(idea, validationReport) ==
  contextWithIdea(idea)
    \o <<"\n","\n","P","r","e","v","i","o","u","s"," ","a","t","t","e","m","p","t"," ","h","a","d"," ",
       "t","h","e"," ","f","o","l","l","o","w","i","n","g"," ","i","s","s","u","e","s",":","\n">>
    \o validationReport
    \o <<"\n","\n","P","l","e","a","s","e"," ","f","i","x"," ","t","h","e","s","e"," ","i","s","s","u",
       "e","s"," ","i","n"," ","y","o","u","r"," ","n","e","w"," ","M","I","D","I"," ","g","e","n","e",
       "r","a","t","i","o","n",".">>

\* The file names a clip is saved under (after `${clip.id}`).
CanonicalFile == ".mid"

InvalidFile == ".invalid.mid"

BestAttemptFile == ".best-attempt.invalid.mid"

(***************************************************************************)
(* State                                                                   *)
(***************************************************************************)

VARIABLES
  config,          \* this.config: stages and maxConcurrentRequests
  activeRequests,  \* this.activeRequests
  call,            \* per call: its position, arguments, locals and its record of what it did
  world,           \* the clients that may call and the texts the collaborators may answer
  codec,           \* a use of the hex/binary codec on its own (the test scripts)
  helper           \* a use of extractMidiHex, checkForCriticalIssues or callLLM on its own

vars == <<config, activeRequests, call, world, codec, helper>>

Last(seq) == seq[Len(seq)]

\* An optional field of a Clip: absent, or holding one value.
None == <<>>

Some(v) == <<v>>

\* The clip a caller passes in: no prompt and no MIDI data yet.
FreshClip ==
  [ prompt       |-> None,
    midiData     |-> None,
    rawMidiBytes |-> None,
    updatedAt    |-> "created" ]

\* A call that has not been made yet.
NewCall ==
  [ pc               |-> "idle",
    kind             |-> "none",    \* "single" (generateClip) or "twoPhase"
    maxRetries       |-> 0,
    clip             |-> None,      \* the caller's clip object, once passed in
    updatedAt        |-> "",        \* updatedClip.updatedAt
    \* callLLM, while an LLM call is in flight
    retries          |-> 0,
    request          |-> <<>>,      \* its user prompt
    \* updatedClip
    prompt           |-> None,
    midiData         |-> None,
    rawMidiBytes     |-> None,
    \* locals of generateClip / generateClipTwoPhase
    idea             |-> <<>>,
    midiHex          |-> <<>>,
    midiBytes        |-> <<>>,
    validationPassed |-> FALSE,
    validationReport |-> <<>>,
    generationAttempt |-> 0,
    savePath         |-> "",        \* the path of the writeFile in flight
    \* what the call did so far
    waited           |-> FALSE,     \* waitForCapacity found the pipeline full
    reserved         |-> 0,         \* times it incremented activeRequests
    released         |-> 0,         \* times it decremented activeRequests
    ideaCalls        |-> 0,         \* callLLM invocations for the idea stage
    midiCalls        |-> 0,         \* callLLM invocations for the MIDI stage
    validatorCalls   |-> 0,         \* validateMidiHex invocations
    ideaAnswers      |-> <<>>,      \* the texts callLLM returned for the idea stage
    prompts          |-> <<>>,      \* the user prompts passed to callLLM for the MIDI stage
    answers          |-> <<>>,      \* the texts callLLM returned for the MIDI stage
    validated        |-> <<>>,      \* validateMidiHex invocations: attempt, hex, report
    verdicts         |-> <<>>,      \* how each MIDI attempt ended
    saves            |-> <<>>,      \* saveMidiFile invocations: path and bytes
    written          |-> <<>>,      \* files written: path and bytes
    debugFailed      |-> FALSE,     \* a write of debug output failed
    error            |-> "" ]

\* No use of the codec outside the pipeline.
NewCodec ==
  [ pc          |-> "none",   \* "bytes", "text", "decoded" or "saved"
    bytes       |-> <<>>,     \* the byte array given to bytesToHex
    encoded     |-> FALSE,    \* the text is the output of bytesToHex
    original    |-> <<>>,     \* the hex text as first written
    text        |-> <<>>,     \* the hex text given to hexToBytes
    reformatted |-> FALSE,
    first       |-> None,     \* what hexToBytes made of the original text
    result      |-> [ok |-> FALSE, error |-> ""],
    saved       |-> "",
    file        |-> None ]    \* the content of the file at the path given to saveMidiFile

\* No use of a helper outside a call.
NewHelper ==
  [ pc      |-> "none",
    input   |-> <<>>,     \* the text given to the helper
    result  |-> None,     \* what the helper made of it
    variant |-> <<>>,     \* a second text, related to the first
    second  |-> None ]    \* what the helper made of the second text

\* A callLLM call that has not been made yet.
NewLLMCall ==
  [ pc         |-> "idle",   \* "generate", "backoff", "returned" or "threw"
    userPrompt |-> <<>>,
    debug      |-> FALSE,    \* options.debug
    retries    |-> 0,
    lastError  |-> "",
    outcomes   |-> <<>>,     \* per generate invocation: the text it answered, or None
    waits      |-> <<>>,     \* the delays of the setTimeout calls, in ms
    logs       |-> <<>>,     \* the logLLMCall invocations
    result     |-> None,     \* the text returned
    error      |-> None ]    \* the error thrown: the number of attempts and the last message

\* A call together with the shared counter it acts on.
Machine(c) == [c |-> call[c], active |-> activeRequests]

Commit(c, m) ==
  /\ call' = [call EXCEPT ![c] = m.c]
  /\ activeRequests' = m.active
  /\ UNCHANGED <<config, world, codec, helper>>

(***************************************************************************)
(* generateClip and generateClipTwoPhase, one operator per stretch of      *)
(* synchronous code                                                        *)
(***************************************************************************)

\* Mutant of Finally: the counter is not decremented when a call ends.
Finally_KeepsSlot(m) == [m EXCEPT !.c.released = @ + 1]

\* finally { this.activeRequests--; }
Finally(m) == [m EXCEPT !.active = @ - 1, !.c.released = @ + 1]

\* Mutant of Throw: the slot is released on return only.
Throw_NoFinally(m, err) == [m EXCEPT !.c.pc = "threw", !.c.error = err, !.c.request = <<>>]

\* An error thrown inside the try block: caught, logged, rethrown.
Throw(m, err) == Finally([m EXCEPT !.c.pc = "threw", !.c.error = err, !.c.request = <<>>])

\* return updatedClip
Return(m) == Finally([m EXCEPT !.c.pc = "returned"])

\* The end of one MIDI attempt, with the way it ended.
EndAttempt(m, verdict) == [m EXCEPT !.c.verdicts = Append(@, verdict)]

\* saveMidiFile up to its await of writeFile.
saveMidiFile(m, midiData, filePath) ==
  LET m1 == [m EXCEPT !.c.saves = Append(@, [path |-> filePath, bytes |-> midiData])]
  IN  IF ~isValidMidi(midiData)
        THEN Throw(m1, "Invalid MIDI data")
        ELSE [m1 EXCEPT !.c.pc = "writeFile", !.c.savePath = filePath]

\* Mutant of Finalize: the file is saved under the canonical name whatever
\* the validation said.
Finalize_AlwaysCanonical(m) == saveMidiFile(m, m.c.midiBytes, CanonicalFile)

\* Phase 2B: save under the canonical name if validation passed, under the
\* invalid name otherwise.
Finalize(m) ==
  IF m.c.validationPassed
    THEN saveMidiFile(m, m.c.midiBytes, CanonicalFile)
    ELSE saveMidiFile(m, m.c.midiBytes,
                      IF m.c.kind = "twoPhase" THEN BestAttemptFile ELSE InvalidFile)

\* The prompt of attempt number generationAttempt.
retryPrompt(s, generationAttempt) ==
  IF generationAttempt > 1 /\ s.validationReport # <<>>
    THEN FeedbackPrompt(s.idea, s.validationReport)
    ELSE contextWithIdea(s.idea)

\* The next attempt up to its await of callLLM.
NextAttempt(m) ==
  [m EXCEPT !.c.generationAttempt = @ + 1,
            !.c.pc = "midi",
            !.c.retries = 0,
            !.c.midiCalls = @ + 1,
            !.c.request = retryPrompt(m.c, m.c.generationAttempt + 1),
            !.c.prompts = Append(@, retryPrompt(m.c, m.c.generationAttempt + 1))]

\* Mutant of RetryLoop: the bound is compared with <= (one attempt too many).
RetryLoop_OffByOne(m) ==
  IF ~m.c.validationPassed /\ m.c.generationAttempt <= m.c.maxRetries
    THEN NextAttempt(m)
    ELSE Finalize(m)

\* Mutant of RetryLoop: the loop gives up one attempt early.
RetryLoop_StopsEarly(m) ==
  IF ~m.c.validationPassed /\ m.c.generationAttempt + 1 < m.c.maxRetries
    THEN NextAttempt(m)
    ELSE Finalize(m)

\* while (!validationPassed && generationAttempt < maxRetries): the next
\* attempt, or the code after the loop.
RetryLoop(m) ==
  IF ~m.c.validationPassed /\ m.c.generationAttempt < m.c.maxRetries
    THEN NextAttempt(m)
    ELSE Finalize(m)

\* A failed structural check: the next attempt in generateClipTwoPhase, an
\* error in generateClip.
Reject(m, verdict, err) ==
  IF m.c.kind = "twoPhase"
    THEN RetryLoop(EndAttempt(m, verdict))
    ELSE Throw(EndAttempt(m, verdict), err)

\* After waitForCapacity: reserve the slot and start the idea stage.
Enter(m) ==
  LET m1 == [m EXCEPT !.active = @ + 1, !.c.reserved = @ + 1]
  IN  IF Len(config.stages) < 1
        THEN Throw(m1, "Missing idea generation stage in pipeline configuration")
        ELSE [m1 EXCEPT !.c.pc = "idea",
                        !.c.retries = 0,
                        !.c.ideaCalls = @ + 1,
                        !.c.request = Context]

\* Mutant of AfterIdea: the prompt field gets the text sent to the idea
\* stage instead of the text it returned.
AfterIdea_StoresRequest(m, idea) ==
  LET m1 == [m EXCEPT !.c.prompt = Some(m.c.request), !.c.idea = idea,
                      !.c.request = <<>>, !.c.retries = 0]
  IN  IF Len(config.stages) < 2
        THEN Throw(m1, "Missing MIDI generation stage in pipeline configuration")
        ELSE RetryLoop(m1)

\* After the idea stage: store the idea and start the MIDI stage.
AfterIdea(m, idea) ==
  LET m1 == [m EXCEPT !.c.prompt = Some(idea), !.c.idea = idea,
                      !.c.request = <<>>, !.c.retries = 0]
  IN  IF Len(config.stages) < 2
        THEN Throw(m1, "Missing MIDI generation stage in pipeline configuration")
      ELSE IF m1.c.kind = "twoPhase"
        THEN RetryLoop(m1)
      ELSE [m1 EXCEPT !.c.pc = "midi",
                      !.c.retries = 0,
                      !.c.midiCalls = @ + 1,
                      !.c.request = contextWithIdea(idea),
                      !.c.prompts = Append(@, contextWithIdea(idea))]

\* The pure helpers applied to the sample texts, each computed once:
\* extractMidiHex of every answer of the MIDI stage, toUpperCase and
\* hexToBytes of every extracted hex text, checkForCriticalIssues of every
\* report.
extractedMidiHex == [response \in AllMidiTexts |-> extractMidiHex(response)]

ExtractedHexTexts ==
  {extractedMidiHex[response].hex :
     response \in {r \in AllMidiTexts : extractedMidiHex[r].ok}}

upperMidiHex == [midiHex \in ExtractedHexTexts |-> toUpperCase(midiHex)]

decodedMidiHex == [midiHex \in ExtractedHexTexts |-> hexToBytes(midiHex)]

hasCriticalIssues == [report \in AllReportTexts |-> checkForCriticalIssues(report)]

\* Mutant of AfterMidiResponse: updatedClip is the caller's clip itself, not
\* a copy.
AfterMidiResponse_WritesOriginal(m, midiHexResponse) ==
  LET extracted == extractedMidiHex[midiHexResponse]
  IN  IF ~extracted.ok
        THEN Throw(EndAttempt(m, "noMidi"), extracted.error)
        ELSE [m EXCEPT !.c.midiHex = extracted.hex,
                       !.c.midiData = Some(extracted.hex),
                       !.c.clip = Some([m.c.clip[1] EXCEPT !.midiData = Some(extracted.hex)]),
                       !.c.request = <<>>,
                       !.c.retries = 0,
                       !.c.pc = "debug"]

\* After the MIDI stage answered: extract the hex text, then await
\* saveMidiDebugInfo.
AfterMidiResponse(m, midiHexResponse) ==
  LET extracted == extractedMidiHex[midiHexResponse]
  IN  IF ~extracted.ok
        THEN Throw(EndAttempt(m, "noMidi"), extracted.error)
        ELSE [m EXCEPT !.c.midiHex = extracted.hex,
                       !.c.midiData = Some(extracted.hex),
                       !.c.request = <<>>,
                       !.c.retries = 0,
                       !.c.pc = "debug"]

\* Mutant of AfterDebugInfo: the decoded length is not checked.
AfterDebugInfo_NoLengthCheck(m) ==
  LET upper   == upperMidiHex[m.c.midiHex]
      decoded == decodedMidiHex[m.c.midiHex]
  IN  IF ~startsWith(upper, MThdUpper)
        THEN Reject(m, "noHeader", "Generated MIDI data is invalid (missing header)")
      ELSE IF ~includes(upper, MTrkUpper)
        THEN Reject(m, "noTrack", "Generated MIDI data is invalid (missing track header)")
      ELSE IF ~decoded.ok
        THEN Throw(EndAttempt(m, "decodeError"), decoded.error)
      ELSE [m EXCEPT !.c.midiBytes = decoded.bytes,
                     !.c.rawMidiBytes = Some(decoded.bytes),
                     !.c.pc = "validate",
                     !.c.validatorCalls = @ + 1,
                     !.c.validated = Append(@, [attempt |-> m.c.midiCalls,
                                                hex     |-> m.c.midiHex,
                                                report  |-> None])]

\* Mutant of AfterDebugInfo: the MTrk track header is not looked for.
AfterDebugInfo_NoTrackCheck(m) ==
  LET upper   == upperMidiHex[m.c.midiHex]
      decoded == decodedMidiHex[m.c.midiHex]
  IN  IF ~startsWith(upper, MThdUpper)
        THEN Reject(m, "noHeader", "Generated MIDI data is invalid (missing header)")
      ELSE IF ~decoded.ok
        THEN Throw(EndAttempt(m, "decodeError"), decoded.error)
      ELSE LET m1 == [m EXCEPT !.c.midiBytes = decoded.bytes,
                               !.c.rawMidiBytes = Some(decoded.bytes)]
           IN  IF Len(decoded.bytes) < 14
                 THEN Reject(m1, "tooShort", "Generated MIDI data is too short to be valid")
                 ELSE [m1 EXCEPT !.c.pc = "validate",
                                 !.c.validatorCalls = @ + 1,
                                 !.c.validated = Append(@, [attempt |-> m.c.midiCalls,
                                                            hex     |-> m.c.midiHex,
                                                            report  |-> None])]

\* Mutant of AfterDebugInfo: the bytes of the first decoded attempt are kept
\* by the later attempts.
AfterDebugInfo_KeepsFirstBytes(m) ==
  LET upper   == upperMidiHex[m.c.midiHex]
      decoded == decodedMidiHex[m.c.midiHex]
  IN  IF ~startsWith(upper, MThdUpper)
        THEN Reject(m, "noHeader", "Generated MIDI data is invalid (missing header)")
      ELSE IF ~includes(upper, MTrkUpper)
        THEN Reject(m, "noTrack", "Generated MIDI data is invalid (missing track header)")
      ELSE IF ~decoded.ok
        THEN Throw(EndAttempt(m, "decodeError"), decoded.error)
      ELSE LET kept == IF m.c.midiBytes = <<>> THEN decoded.bytes ELSE m.c.midiBytes
               m1   == [m EXCEPT !.c.midiBytes = kept,
                                 !.c.rawMidiBytes = Some(kept)]
           IN  IF Len(decoded.bytes) < 14
                 THEN Reject(m1, "tooShort", "Generated MIDI data is too short to be valid")
                 ELSE [m1 EXCEPT !.c.pc = "validate",
                                 !.c.validatorCalls = @ + 1,
                                 !.c.validated = Append(@, [attempt |-> m.c.midiCalls,
                                                            hex     |-> m.c.midiHex,
                                                            report  |-> None])]

\* After saveMidiDebugInfo: the structural checks and the decoding, up to
\* the await of validateMidiHex.
AfterDebugInfo(m) ==
  LET upper   == upperMidiHex[m.c.midiHex]
      decoded == decodedMidiHex[m.c.midiHex]
  IN  IF ~startsWith(upper, MThdUpper)
        THEN Reject(m, "noHeader", "Generated MIDI data is invalid (missing header)")
      ELSE IF ~includes(upper, MTrkUpper)
        THEN Reject(m, "noTrack", "Generated MIDI data is invalid (missing track header)")
      ELSE IF ~decoded.ok
        THEN Throw(EndAttempt(m, "decodeError"), decoded.error)
      ELSE LET m1 == [m EXCEPT !.c.midiBytes = decoded.bytes,
                               !.c.rawMidiBytes = Some(decoded.bytes)]
           IN  IF Len(decoded.bytes) < 14
                 THEN Reject(m1, "tooShort", "Generated MIDI data is too short to be valid")
                 ELSE [m1 EXCEPT !.c.pc = "validate",
                                 !.c.validatorCalls = @ + 1,
                                 !.c.validated = Append(@, [attempt |-> m.c.midiCalls,
                                                            hex     |-> m.c.midiHex,
                                                            report  |-> None])]

\* Mutant of AfterValidation: a clean report does not set validationPassed.
AfterValidation_NeverPasses(m, report) ==
  LET m1 == [m EXCEPT !.c.validationReport = report,
                      !.c.validated[Len(m.c.validated)].report = Some(report)]
      m2 == EndAttempt(m1, IF hasCriticalIssues[report] THEN "critical" ELSE "clean")
  IN  IF m.c.kind = "twoPhase" THEN RetryLoop(m2) ELSE Finalize(m2)

\* After validateMidiHex returned a report.
AfterValidation(m, report) ==
  LET m1 == [m EXCEPT !.c.validationReport = report,
                      !.c.validated[Len(m.c.validated)].report = Some(report)]
  IN  IF hasCriticalIssues[report]
        THEN IF m.c.kind = "twoPhase"
               THEN RetryLoop(EndAttempt(m1, "critical"))
               ELSE Finalize(EndAttempt([m1 EXCEPT !.c.validationPassed = FALSE], "critical"))
        ELSE LET m2 == EndAttempt([m1 EXCEPT !.c.validationPassed = TRUE], "clean")
             IN  IF m.c.kind = "twoPhase" THEN RetryLoop(m2) ELSE Finalize(m2)

\* Mutant of AfterValidationError: the validator's error is not caught.
AfterValidationError_Aborts(m) ==
  Throw(EndAttempt(m, "validatorError"), "validateMidiHex failed")

\* After validateMidiHex threw: the catch block around the validation.
AfterValidationError(m) ==
  IF m.c.kind = "twoPhase"
    THEN RetryLoop(EndAttempt(m, "validatorError"))
    ELSE Finalize(EndAttempt([m EXCEPT !.c.validationPassed = FALSE], "validatorError"))

\* Mutant of AfterGenerateError: a failed idea stage is logged and the MIDI
\* stage runs without an idea.
AfterGenerateError_IdeaNotFatal(m) ==
  IF m.c.retries + 1 < MAX_RETRIES
    THEN [m EXCEPT !.c.retries = @ + 1]
  ELSE IF m.c.pc = "midi"
    THEN Throw(EndAttempt(m, "llmError"), "LLM call failed after 3 attempts")
  ELSE [m EXCEPT !.c.error = "LLM call failed after 3 attempts",
                 !.c.pc = "midi",
                 !.c.retries = 0,
                 !.c.generationAttempt = @ + 1,
                 !.c.midiCalls = @ + 1,
                 !.c.request = contextWithIdea(<<>>)]

\* callLLM after generate failed: retry after the backoff, or give up.
AfterGenerateError(m) ==
  IF m.c.retries + 1 < MAX_RETRIES
    THEN [m EXCEPT !.c.retries = @ + 1]
    ELSE Throw(IF m.c.pc = "midi" THEN EndAttempt(m, "llmError") ELSE m,
               "LLM call failed after 3 attempts")

(***************************************************************************)
(* Actions: one per resumption of a call                                   *)
(***************************************************************************)

\* A continuation that is already queued as a microtask runs before any
\* timer or I/O completion is delivered.
NoPendingMicrotask == \A c \in Calls : call[c].pc # "checked"

\* A client calls generateClip or generateClipTwoPhase: the call runs up to
\* its await of waitForCapacity, which has made its first check.
Launch(c, kind, maxRetries) ==
  /\ c \in world.callers
  /\ call[c].pc = "idle"
  /\ call' = [call EXCEPT ![c] =
                [@ EXCEPT !.kind = kind,
                          !.maxRetries = maxRetries,
                          !.clip = Some(FreshClip),
                          !.prompt = FreshClip.prompt,
                          !.midiData = FreshClip.midiData,
                          !.rawMidiBytes = FreshClip.rawMidiBytes,
                          !.updatedAt = "now",
                          !.waited = activeRequests >= config.maxConcurrentRequests,
                          !.pc = IF activeRequests >= config.maxConcurrentRequests
                                   THEN "waiting" ELSE "checked"]]
  /\ UNCHANGED <<config, activeRequests, world, codec, helper>>

\* waitForCapacity returned without sleeping: the call resumes.
Admit(c) ==
  /\ call[c].pc = "checked"
  /\ Commit(c, Enter(Machine(c)))

\* The 100 ms timer of waitForCapacity fires: check again, and go on or
\* sleep again.
Poll(c) ==
  /\ call[c].pc = "waiting"
  /\ NoPendingMicrotask
  /\ IF activeRequests >= config.maxConcurrentRequests
       THEN UNCHANGED vars
       ELSE Commit(c, Enter(Machine(c)))

\* generate answers the LLM call in flight: callLLM returns its text.
GenerateReturns(c, text) ==
  /\ call[c].pc \in {"idea", "midi"}
  /\ NoPendingMicrotask
  /\ text \in (IF call[c].pc = "idea" THEN world.ideaTexts ELSE world.midiTexts)
  /\ Commit(c, IF call[c].pc = "idea"
                 THEN AfterIdea([Machine(c) EXCEPT !.c.ideaAnswers = Append(@, text)], text)
                 ELSE AfterMidiResponse([Machine(c) EXCEPT !.c.answers = Append(@, text)], text))

\* generate fails.
GenerateFails(c) ==
  /\ call[c].pc \in {"idea", "midi"}
  /\ NoPendingMicrotask
  /\ Commit(c, AfterGenerateError(Machine(c)))

\* saveMidiDebugInfo is done (it swallows its own errors).
DebugInfoSaved(c) ==
  /\ call[c].pc = "debug"
  /\ NoPendingMicrotask
  /\ Commit(c, AfterDebugInfo(Machine(c)))

\* Mutant of AfterDebugInfoError: the error of the debug write is rethrown.
AfterDebugInfoError_Rethrows(m) ==
  Throw([m EXCEPT !.c.debugFailed = TRUE], "Error saving MIDI debug info")

\* catch (error) { console.error(...) } of saveMidiDebugInfo: the caller goes
\* on as after a successful write.
AfterDebugInfoError(m) == AfterDebugInfo([m EXCEPT !.c.debugFailed = TRUE])

\* The directory or the file of the debug dump cannot be written:
\* saveMidiDebugInfo catches the error and returns.
DebugInfoFails(c) ==
  /\ call[c].pc = "debug"
  /\ NoPendingMicrotask
  /\ Commit(c, AfterDebugInfoError(Machine(c)))

\* A write of logLLMCall fails while callLLM is at work for the idea or the
\* MIDI stage: logLLMCall catches the error and callLLM goes on.
LogWriteFails(c) ==
  /\ call[c].pc \in {"idea", "midi"}
  /\ ~call[c].debugFailed
  /\ NoPendingMicrotask
  /\ Commit(c, [Machine(c) EXCEPT !.c.debugFailed = TRUE])

\* validateMidiHex returns a report.
ValidatorReturns(c, report) ==
  /\ call[c].pc = "validate"
  /\ NoPendingMicrotask
  /\ report \in world.reportTexts
  /\ Commit(c, AfterValidation(Machine(c), report))

\* validateMidiHex throws.
ValidatorFails(c) ==
  /\ call[c].pc = "validate"
  /\ NoPendingMicrotask
  /\ Commit(c, AfterValidationError(Machine(c)))

\* writeFile of saveMidiFile succeeds: the call returns.
WriteFileDone(c) ==
  /\ call[c].pc = "writeFile"
  /\ NoPendingMicrotask
  /\ Commit(c, Return([Machine(c) EXCEPT
                         !.c.written = Append(@, [path  |-> call[c].savePath,
                                                  bytes |-> Last(call[c].saves).bytes])]))

\* writeFile of saveMidiFile fails: saveMidiFile rethrows.
WriteFileFails(c) ==
  /\ call[c].pc = "writeFile"
  /\ NoPendingMicrotask
  /\ Commit(c, Throw(Machine(c), "writeFile failed"))

Next ==
  \E c \in Calls :
    \/ \E maxRetries \in world.retryChoices : Launch(c, "twoPhase", maxRetries)
    \/ world.single /\ Launch(c, "single", 0)
    \/ Admit(c)
    \/ Poll(c)
    \/ \E text \in AllIdeaTexts \cup AllMidiTexts : GenerateReturns(c, text)
    \/ GenerateFails(c)
    \/ DebugInfoSaved(c)
    \/ DebugInfoFails(c)
    \/ LogWriteFails(c)
    \/ \E report \in AllReportTexts : ValidatorReturns(c, report)
    \/ ValidatorFails(c)
    \/ WriteFileDone(c)
    \/ WriteFileFails(c)

(***************************************************************************)
(* The codec on its own: bytesToHex, hexToBytes and saveMidiFile as the    *)
(* test scripts call them (createTestMidiFile, generateTestMelody)         *)
(***************************************************************************)

\* A script has a byte array and renders it: bytesToHex(bytes).
Encode ==
  /\ codec.pc = "bytes"
  /\ codec' = [codec EXCEPT !.pc = "text",
                            !.encoded = TRUE,
                            !.text = bytesToHex(codec.bytes),
                            !.original = bytesToHex(codec.bytes)]
  /\ UNCHANGED <<config, activeRequests, call, world, helper>>

\* A script decodes its hex text: hexToBytes(text).
Decode ==
  /\ codec.pc = "text"
  /\ codec' = [codec EXCEPT !.pc = "decoded",
                            !.result = hexToBytes(codec.text),
                            !.first = IF codec.first = None
                                        THEN Some(hexToBytes(codec.text)) ELSE @]
  /\ UNCHANGED <<config, activeRequests, call, world, helper>>

\* The same hex digits laid out differently: one more white-space character
\* at offset i of the text, which is then decoded again.
Reformat(i, ws) ==
  /\ codec.pc = "decoded"
  /\ ~codec.reformatted
  /\ Len(codec.text) <= MaxHexLen
  /\ i \in 0..Len(codec.text)
  /\ codec' = [codec EXCEPT !.pc = "text",
                            !.reformatted = TRUE,
                            !.text = SubSeq(codec.text, 1, i) \o <<ws>>
                                       \o SubSeq(codec.text, i + 1, Len(codec.text))]
  /\ UNCHANGED <<config, activeRequests, call, world, helper>>

\* saveMidiFile(bytes, outputPath) with the decoded bytes, its writeFile
\* succeeding.
Save ==
  /\ codec.pc = "decoded"
  /\ codec.result.ok
  /\ codec' = [codec EXCEPT !.pc = "saved",
                            !.saved = IF isValidMidi(codec.result.bytes)
                                        THEN "written" ELSE "Invalid MIDI data"]
  /\ UNCHANGED <<config, activeRequests, call, world, helper>>

\* Mutant of SaveBytes: the bytes are written without the isValidMidi check.
SaveBytes_NoCheck ==
  /\ codec.pc = "bytes"
  /\ codec' = [codec EXCEPT !.pc = "writeFile"]
  /\ UNCHANGED <<config, activeRequests, call, world, helper>>

\* saveMidiFile(bytes, filePath) on a byte array, up to its await of
\* writeFile: the error "Invalid MIDI data" is thrown before anything is
\* written.
SaveBytes ==
  /\ codec.pc = "bytes"
  /\ codec' = IF ~isValidMidi(codec.bytes)
                THEN [codec EXCEPT !.pc = "threw", !.saved = "Invalid MIDI data"]
                ELSE [codec EXCEPT !.pc = "writeFile"]
  /\ UNCHANGED <<config, activeRequests, call, world, helper>>

\* writeFile succeeds: the file holds the bytes and saveMidiFile returns the
\* path.
SaveBytesDone ==
  /\ codec.pc = "writeFile"
  /\ codec' = [codec EXCEPT !.pc = "returned",
                            !.saved = "written",
                            !.file = Some(codec.bytes)]
  /\ UNCHANGED <<config, activeRequests, call, world, helper>>

\* writeFile fails: saveMidiFile logs the error and rethrows it.
SaveBytesFails ==
  /\ codec.pc = "writeFile"
  /\ codec' = [codec EXCEPT !.pc = "threw", !.saved = "writeFile failed"]
  /\ UNCHANGED <<config, activeRequests, call, world, helper>>

NextCodec ==
  \/ Encode
  \/ Decode
  \/ \E i \in 0..(MaxHexLen + 1), ws \in WhiteSpace \ {"\r"} : Reformat(i, ws)
  \/ Save
  \/ SaveBytes
  \/ SaveBytesDone
  \/ SaveBytesFails

(***************************************************************************)
(* The extractor on its own: extractMidiHex applied to a response          *)
(***************************************************************************)

\* extractMidiHex(response)
Extract ==
  /\ helper.pc = "response"
  /\ helper' = [helper EXCEPT !.pc = "extracted", !.result = extractMidiHex(helper.input)]
  /\ UNCHANGED <<config, activeRequests, call, world, codec>>

\* extractMidiHex applied to its own output.
ExtractAgain ==
  /\ helper.pc = "extracted"
  /\ helper.result.ok
  /\ helper' = [helper EXCEPT !.pc = "again",
                              !.variant = helper.result.hex,
                              !.second = extractMidiHex(helper.result.hex)]
  /\ UNCHANGED <<config, activeRequests, call, world, codec>>

\* The offset of the header extractMidiHex starts from: the first upper-case
\* one, or else the first lower-case one.
HeaderIndex(response) ==
  IF indexOf(response, MThdUpper, 0) # -1
    THEN indexOf(response, MThdUpper, 0)
    ELSE indexOf(response, MThdLower, 0)

\* The same response with more prose before it, or with more text after its
\* end marker.
Rewrite(before, after) ==
  /\ helper.pc = "extracted"
  /\ helper.result.ok
  /\ before # <<>> \/ after # <<>>
  /\ after # <<>> => EndIndex(helper.input, HeaderIndex(helper.input)) < Len(helper.input)
  /\ helper' = [helper EXCEPT !.pc = "rewritten", !.variant = before \o helper.input \o after]
  /\ UNCHANGED <<config, activeRequests, call, world, codec>>

\* extractMidiHex(response) for the rewritten response.
ExtractVariant ==
  /\ helper.pc = "rewritten"
  /\ helper' = [helper EXCEPT !.pc = "compared", !.second = extractMidiHex(helper.variant)]
  /\ UNCHANGED <<config, activeRequests, call, world, codec>>

NextExtract ==
  \/ Extract
  \/ ExtractAgain
  \/ \E before \in {<<>>, <<"o","k"," ">>}, after \in {<<>>, <<" ","0","1">>} :
       Rewrite(before, after)
  \/ ExtractVariant

(***************************************************************************)
(* The classifier on its own: checkForCriticalIssues applied to a report   *)
(***************************************************************************)

\* checkForCriticalIssues(validationReport)
Classify ==
  /\ helper.pc = "report"
  /\ helper' = [helper EXCEPT !.pc = "classified",
                              !.result = checkForCriticalIssues(helper.input)]
  /\ UNCHANGED <<config, activeRequests, call, world, codec>>

\* The same report in capitals, classified in its turn.
ClassifyUpperCase ==
  /\ helper.pc = "classified"
  /\ helper' = [helper EXCEPT !.pc = "compared",
                              !.variant = toUpperCase(helper.input),
                              !.second = checkForCriticalIssues(toUpperCase(helper.input))]
  /\ UNCHANGED <<config, activeRequests, call, world, codec>>

\* Text a report can be extended with, before and after.
TextBefore == {<<>>, <<"N","o"," ">>}
TextAfter  == {<<>>, <<" ","w","a","s"," ","n","o","t"," ","f","o","u","n","d">>}

\* The same report with text added before or after it, classified in its
\* turn.
ClassifyExtended(before, after) ==
  /\ helper.pc = "classified"
  /\ before # <<>> \/ after # <<>>
  /\ helper' = [helper EXCEPT !.pc = "extended",
                              !.variant = before \o helper.input \o after,
                              !.second = checkForCriticalIssues(before \o helper.input \o after)]
  /\ UNCHANGED <<config, activeRequests, call, world, codec>>

NextClassify ==
  \/ Classify
  \/ ClassifyUpperCase
  \/ \E before \in TextBefore, after \in TextAfter : ClassifyExtended(before, after)

(***************************************************************************)
(* callLLM on its own (src/src/llm.ts)                                     *)
(***************************************************************************)

\* The errors generate may fail with.
GenerateErrors == {"rate limited", "timeout"}

\* Mutant of Backoff: the delay does not grow.
Backoff_Constant(retries) == RETRY_BACKOFF

\* RETRY_BACKOFF * Math.pow(2, retries - 1)
Backoff(retries) == RETRY_BACKOFF * 2^(retries - 1)

\* callLLM(systemPrompt, userPrompt, modelConfig, options) up to its first
\* await of generate; with options.debug the input is logged first
\* (logLLMCall catches its own errors).
CallLLM(userPrompt, debug) ==
  /\ helper.pc = "idle"
  /\ helper' = [helper EXCEPT !.pc = "generate",
                              !.userPrompt = userPrompt,
                              !.debug = debug,
                              !.logs = IF debug THEN <<"input">> ELSE <<>>]
  /\ UNCHANGED <<config, activeRequests, call, world, codec>>

\* generate answers: the output is logged with options.debug, and
\* response.text is returned.
GenerateAnswers(text) ==
  /\ helper.pc = "generate"
  /\ helper' = [helper EXCEPT !.pc = "returned",
                              !.outcomes = Append(@, Some(text)),
                              !.logs = IF helper.debug THEN Append(@, "output") ELSE @,
                              !.result = Some(text)]
  /\ UNCHANGED <<config, activeRequests, call, world, codec>>

\* generate throws: the catch block counts the failure and sleeps before
\* the next iteration if there is one; after the loop the error is thrown.
GenerateThrows(message) ==
  /\ helper.pc = "generate"
  /\ LET retries == helper.retries + 1
         failed  == [helper EXCEPT !.lastError = message,
                                   !.retries = retries,
                                   !.outcomes = Append(@, None)]
     IN  helper' = IF retries < MAX_RETRIES
                     THEN [failed EXCEPT !.pc = "backoff",
                                         !.waits = Append(@, Backoff(retries))]
                     ELSE [failed EXCEPT !.pc = "threw",
                                         !.error = Some([attempts |-> MAX_RETRIES,
                                                         message  |-> message])]
  /\ UNCHANGED <<config, activeRequests, call, world, codec>>

\* The timer of the backoff fires: the loop calls generate again.
BackoffElapsed ==
  /\ helper.pc = "backoff"
  /\ helper' = [helper EXCEPT !.pc = "generate"]
  /\ UNCHANGED <<config, activeRequests, call, world, codec>>

NextLLM ==
  \/ \E userPrompt \in {Context} \cup {contextWithIdea(idea) : idea \in AllIdeaTexts},
        debug \in BOOLEAN :
       CallLLM(userPrompt, debug)
  \/ \E text \in AllIdeaTexts \cup AllMidiTexts : GenerateAnswers(text)
  \/ \E message \in GenerateErrors : GenerateThrows(message)
  \/ BackoffElapsed

(***************************************************************************)
(* The two-step validator on its own: quickValidateMidiHex and             *)
(* validateMidiHex, then the classification of the report                  *)
(***************************************************************************)

\* A validateMidiHex call that has not been made yet.
NewValidation ==
  [ pc            |-> "idle",   \* "quick", "detailed", "writeFile", "returned", "classified", "threw"
    midiHex       |-> <<>>,
    outputPath    |-> FALSE,    \* an outputPath was given
    generateCalls |-> <<>>,     \* the generate invocations: "quick", "detailed"
    quick         |-> None,     \* the text generate answered to the quick prompt
    quickFailed   |-> FALSE,    \* generate threw on the quick prompt
    isValid       |-> None,     \* what quickValidateMidiHex returned
    report        |-> None,     \* validMessage or the analysis
    written       |-> None,     \* the content of the report file
    result        |-> None,     \* the text validateMidiHex returned
    critical      |-> None,     \* what checkForCriticalIssues made of it
    error         |-> "" ]

\* "MIDI data passed quick validation. No issues detected."
validMessage ==
  <<"M","I","D","I"," ","d","a","t","a"," ","p","a","s","s","e","d"," ","q","u","i","c","k"," ","v",
    "a","l","i","d","a","t","i","o","n","."," ","N","o"," ","i","s","s","u","e","s"," ","d","e","t",
    "e","c","t","e","d",".">>

\* The report file: the report between a header line and a footer line.
formattedOutput(report) ==
  <<"\n","=","=","=","=","=","=","=","=","=","=","=","=","=","=","=","="," ","M","I","D","I"," ",
    "V","A","L","I","D","A","T","I","O","N"," ","R","E","P","O","R","T"," ","=","=","=","=","=","=",
    "=","=","=","=","=","=","=","=","=","=","\n">>
    \o report
    \o <<"\n","=","=","=","=","=","=","=","=","=","=","=","=","=","=","=","="," ","E","N","D"," ","O",
       "F"," ","R","E","P","O","R","T"," ","=","=","=","=","=","=","=","=","=","=","=","=","=","=","=",
       "=","\n">>

\* What generate can answer to the quick prompt.
QuickAnswerTexts ==
  { <<"V","A","L","I","D">>,
    <<"I","N","V","A","L","I","D">>,
    <<" ","v","a","l","i","d","\n">>,
    <<"V","a","l","i","d">>,
    <<"V","A","L","I","D",".">>,
    <<"N","O","T"," ","V","A","L","I","D">>,
    <<>> }

\* Mutant of quickValidateMidiHex: any answer with the word VALID in it
\* counts as valid.
quickValidateMidiHex_Includes(outcome) ==
  IF outcome = None
    THEN FALSE
    ELSE includes(toUpperCase(outcome[1]), <<"V","A","L","I","D">>)

\* quickValidateMidiHex, given what generate did with the quick prompt: the
\* text it answered, or None if it threw.
quickValidateMidiHex(outcome) ==
  IF outcome = None
    THEN FALSE
    ELSE toUpperCase(trim(outcome[1])) = <<"V","A","L","I","D">>

\* The report is saved if an outputPath was given, then returned.
Report(v, text) ==
  IF v.outputPath
    THEN [v EXCEPT !.pc = "writeFile", !.report = Some(text)]
    ELSE [v EXCEPT !.pc = "returned", !.report = Some(text), !.result = Some(text)]

\* validateMidiHex after its await of quickValidateMidiHex.
AfterQuickValidation(v, isValid) ==
  IF isValid
    THEN Report([v EXCEPT !.isValid = Some(TRUE)], validMessage)
    ELSE [v EXCEPT !.isValid = Some(FALSE),
                   !.pc = "detailed",
                   !.generateCalls = Append(@, "detailed")]

\* validateMidiHex(midiHex, outputPath) up to the await of generate in
\* quickValidateMidiHex.
ValidateMidiHex(midiHex, outputPath) ==
  /\ helper.pc = "idle"
  /\ helper' = [helper EXCEPT !.pc = "quick",
                              !.midiHex = midiHex,
                              !.outputPath = outputPath,
                              !.generateCalls = <<"quick">>]
  /\ UNCHANGED <<config, activeRequests, call, world, codec>>

\* generate answers the quick prompt.
QuickAnswers(text) ==
  /\ helper.pc = "quick"
  /\ helper' = AfterQuickValidation([helper EXCEPT !.quick = Some(text)],
                                    quickValidateMidiHex(Some(text)))
  /\ UNCHANGED <<config, activeRequests, call, world, codec>>

\* generate throws on the quick prompt: quickValidateMidiHex catches the
\* error and returns false.
QuickThrows ==
  /\ helper.pc = "quick"
  /\ helper' = AfterQuickValidation([helper EXCEPT !.quickFailed = TRUE],
                                    quickValidateMidiHex(None))
  /\ UNCHANGED <<config, activeRequests, call, world, codec>>

\* generate answers the detailed prompt with its analysis.
DetailedAnswers(analysis) ==
  /\ helper.pc = "detailed"
  /\ helper' = Report(helper, analysis)
  /\ UNCHANGED <<config, activeRequests, call, world, codec>>

\* generate throws on the detailed prompt: validateMidiHex rethrows.
DetailedThrows ==
  /\ helper.pc = "detailed"
  /\ helper' = [helper EXCEPT !.pc = "threw", !.error = "generate failed"]
  /\ UNCHANGED <<config, activeRequests, call, world, codec>>

\* The report file is written: validateMidiHex returns the report.
ReportWritten ==
  /\ helper.pc = "writeFile"
  /\ helper' = [helper EXCEPT !.pc = "returned",
                              !.written = Some(formattedOutput(helper.report[1])),
                              !.result = helper.report]
  /\ UNCHANGED <<config, activeRequests, call, world, codec>>

\* The report file cannot be written: validateMidiHex rethrows.
ReportWriteFails ==
  /\ helper.pc = "writeFile"
  /\ helper' = [helper EXCEPT !.pc = "threw", !.error = "writeFile failed"]
  /\ UNCHANGED <<config, activeRequests, call, world, codec>>

\* The pipeline classifies the report it got: checkForCriticalIssues.
ClassifyReport ==
  /\ helper.pc = "returned"
  /\ helper' = [helper EXCEPT !.pc = "classified",
                              !.critical = Some(checkForCriticalIssues(helper.result[1]))]
  /\ UNCHANGED <<config, activeRequests, call, world, codec>>

NextValidate ==
  \/ \E midiHex \in {TestMidiHex, MThdUpper}, outputPath \in BOOLEAN :
       ValidateMidiHex(midiHex, outputPath)
  \/ \E text \in QuickAnswerTexts : QuickAnswers(text)
  \/ QuickThrows
  \/ \E analysis \in AllReportTexts : DetailedAnswers(analysis)
  \/ DetailedThrows
  \/ ReportWritten
  \/ ReportWriteFails
  \/ ClassifyReport

(***************************************************************************)
(* Specifications                                                          *)
(***************************************************************************)

InitPipeline(maxConcurrent) ==
  /\ config \in [stages : StageConfigs, maxConcurrentRequests : maxConcurrent]
  /\ activeRequests = 0
  /\ call = [c \in Calls |-> NewCall]
  /\ codec = NewCodec
  /\ helper = NewHelper

\* One client call at a time, with every sample answer of the collaborators.
Init ==
  /\ InitPipeline({0, DefaultMaxConcurrentRequests})
  /\ world = [callers      |-> {1},
              single       |-> TRUE,
              retryChoices |-> 0..MaxRetriesBound,
              ideaTexts    |-> AllIdeaTexts,
              midiTexts    |-> AllMidiTexts,
              reportTexts  |-> AllReportTexts]

Spec == Init /\ [][Next]_vars

\* Several clients calling one pipeline, with a few sample answers.
InitAdmission ==
  /\ InitPipeline(1..(NumCalls - 1))
  /\ world = [callers      |-> Calls,
              single       |-> TRUE,
              retryChoices |-> {1},
              ideaTexts    |-> {IdeaRiff},
              midiTexts    |-> {RespValidA, RespNoMidi, RespOddDigits},
              reportTexts  |-> {ReportMismatch, ReportFine}]

SpecAdmission == InitAdmission /\ [][Next]_vars

\* A script about to call bytesToHex on a byte array or hexToBytes on a text.
InitCodec ==
  /\ config = [stages |-> DEFAULT_STAGES, maxConcurrentRequests |-> DefaultMaxConcurrentRequests]
  /\ activeRequests = 0
  /\ call = [c \in Calls |-> NewCall]
  /\ world = [callers |-> {}, single |-> FALSE, retryChoices |-> {},
              ideaTexts |-> {}, midiTexts |-> {}, reportTexts |-> {}]
  /\ helper = NewHelper
  /\ \/ \E bytes \in ByteInputs : codec = [NewCodec EXCEPT !.pc = "bytes", !.bytes = bytes]
     \/ \E text \in HexInputs :
          codec = [NewCodec EXCEPT !.pc = "text", !.text = text, !.original = text]

SpecCodec == InitCodec /\ [][NextCodec]_vars

\* No client and no script: the pipeline and the codec at rest.
InitIdle ==
  /\ config = [stages |-> DEFAULT_STAGES, maxConcurrentRequests |-> DefaultMaxConcurrentRequests]
  /\ activeRequests = 0
  /\ call = [c \in Calls |-> NewCall]
  /\ world = [callers |-> {}, single |-> FALSE, retryChoices |-> {},
              ideaTexts |-> {}, midiTexts |-> {}, reportTexts |-> {}]
  /\ codec = NewCodec

\* An LLM response about to be given to extractMidiHex.
InitExtract ==
  /\ InitIdle
  /\ \E response \in ResponseInputs :
       helper = [NewHelper EXCEPT !.pc = "response", !.input = response]

SpecExtract == InitExtract /\ [][NextExtract]_vars

\* A validation report about to be given to checkForCriticalIssues.
InitClassify ==
  /\ InitIdle
  /\ \E report \in ReportInputs :
       helper = [NewHelper EXCEPT !.pc = "report", !.input = report]

SpecClassify == InitClassify /\ [][NextClassify]_vars

\* A caller about to call validateMidiHex.
InitValidate ==
  /\ InitIdle
  /\ helper = NewValidation

SpecValidate == InitValidate /\ [][NextValidate]_vars

\* A caller about to call callLLM.
InitLLM ==
  /\ InitIdle
  /\ helper = NewLLMCall

SpecLLM == InitLLM /\ [][NextLLM]_vars

\* The completion of whatever call c awaits: an answer or a failure of
\* generate, the end of saveMidiDebugInfo, a report or a failure of
\* validateMidiHex, the end of writeFile.
Completion(c) ==
  \/ \E text \in AllIdeaTexts \cup AllMidiTexts : GenerateReturns(c, text)
  \/ GenerateFails(c)
  \/ DebugInfoSaved(c)
  \/ DebugInfoFails(c)
  \/ \E report \in AllReportTexts : ValidatorReturns(c, report)
  \/ ValidatorFails(c)
  \/ WriteFileDone(c)
  \/ WriteFileFails(c)

\* The event loop runs every queued continuation and fires every timer, and
\* the collaborators always respond.
Fairness ==
  \A c \in Calls :
    /\ WF_vars(Admit(c))
    /\ WF_vars(Poll(c))
    /\ WF_vars(Completion(c))

\* Several clients calling one pipeline whose collaborators always respond.
InitLive ==
  /\ InitPipeline(0..(NumCalls - 1))
  /\ world = [callers      |-> Calls,
              single       |-> TRUE,
              retryChoices |-> {2},
              ideaTexts    |-> {IdeaRiff},
              midiTexts    |-> {RespValidA},
              reportTexts  |-> {ReportMismatch, ReportFine}]

SpecLive == InitLive /\ [][Next]_vars /\ Fairness

(***************************************************************************)
(* Properties                                                              *)
(***************************************************************************)

Ended(c) == call[c].pc \in {"returned", "threw"}

TwoPhase(c) == call[c].kind = "twoPhase"

\* The calls that hold a slot: reserved and not yet released.
Holders == {c \in Calls : call[c].reserved > call[c].released}

\* The report of a validateMidiHex invocation is free of critical issues.
CleanReport(v) == v.report # None /\ ~checkForCriticalIssues(v.report[1])

\* The report of a validateMidiHex invocation names a critical issue.
CriticalReport(v) == v.report # None /\ checkForCriticalIssues(v.report[1])

\* Every MIDI attempt the call made got a validator report with a critical issue.
AllAttemptsCritical(c) ==
  /\ call[c].midiCalls >= 1
  /\ Len(call[c].validated) = call[c].midiCalls
  /\ \A i \in DOMAIN call[c].validated : CriticalReport(call[c].validated[i])

\* C1: the number of calls that have reserved a slot and not yet released it
\* never exceeds maxConcurrentRequests, whatever the interleaving of the calls.
C1_AdmissionCap ==
  /\ Cardinality(Holders) <= config.maxConcurrentRequests
  /\ activeRequests <= config.maxConcurrentRequests

\* C2: every call that reserves a slot releases it exactly once when it ends,
\* by return or by throw; activeRequests counts the calls holding a slot, is
\* never negative, and is 0 once all calls have ended.
C2_SlotReleasedOnce ==
  /\ \A c \in Calls :
       /\ call[c].reserved <= 1
       /\ call[c].released <= call[c].reserved
       /\ Ended(c) => call[c].released = call[c].reserved
       /\ ~Ended(c) => call[c].released = 0
  /\ activeRequests = Cardinality(Holders)
  /\ activeRequests >= 0
  /\ (\A c \in Calls : Ended(c) \/ call[c].pc = "idle") => activeRequests = 0

\* C2 witness: a call failed while decoding and released its slot, and a later
\* call has been admitted to a pipeline with a single slot.
C2_Witness ==
  \E c, d \in Calls :
    /\ c # d
    /\ config.maxConcurrentRequests = 1
    /\ call[c].pc = "threw"
    /\ call[c].error = "Hex string must have an even number of characters"
    /\ call[c].released = 1
    /\ call[d].pc = "idea"
    /\ call[d].reserved = 1

\* C3: a file is written under the canonical name only when the validator
\* report of the call's final attempt is free of critical issues, and it holds
\* the bytes decoded from the hex that report was about; a call that ends
\* unaccepted writes only the invalid-marked name; a returning call has made
\* exactly one saveMidiFile call and written exactly one file.
C3_CanonicalOnlyIfAccepted ==
  \A c \in Calls :
    LET s == call[c] IN
    /\ Len(s.written) <= 1
    /\ Len(s.saves) <= 1
    /\ s.pc = "returned" => Len(s.written) = 1 /\ s.written = s.saves
    /\ \A i \in DOMAIN s.saves :
         s.saves[i].path = CanonicalFile =>
           /\ s.validated # <<>>
           /\ Last(s.validated).attempt = s.midiCalls
           /\ CleanReport(Last(s.validated))
           /\ hexToBytes(Last(s.validated).hex).ok
           /\ s.saves[i].bytes = hexToBytes(Last(s.validated).hex).bytes
    /\ (s.pc = "returned" /\ ~(s.validated # <<>> /\ Last(s.validated).attempt = s.midiCalls
                                 /\ CleanReport(Last(s.validated)))) =>
         s.written[1].path = (IF TwoPhase(c) THEN BestAttemptFile ELSE InvalidFile)

\* C3 witness: a two-phase call returned after a rejected and an accepted
\* attempt, with the canonical file written.
C3_Witness ==
  \E c \in Calls :
    /\ TwoPhase(c)
    /\ call[c].pc = "returned"
    /\ Len(call[c].validated) = 2
    /\ call[c].written[1].path = CanonicalFile

\* C4: within one generateClipTwoPhase call the MIDI stage is invoked at most
\* maxRetries times, once per iteration, and once maxRetries attempts have
\* ended the call is past the loop: saving, returned or failed.
C4_RetryLoopBounded ==
  \A c \in Calls :
    TwoPhase(c) =>
      /\ call[c].midiCalls <= call[c].maxRetries
      /\ call[c].generationAttempt = call[c].midiCalls
      /\ Len(call[c].answers) <= call[c].midiCalls
      /\ Len(call[c].verdicts) <= call[c].midiCalls
      /\ (call[c].maxRetries >= 1 /\ Len(call[c].verdicts) = call[c].maxRetries)
           => call[c].pc \in {"writeFile", "returned", "threw"}

\* C4 witness: a call used all of its three attempts and returned.
C4_Witness ==
  \E c \in Calls :
    /\ TwoPhase(c)
    /\ call[c].maxRetries = 3
    /\ call[c].midiCalls = 3
    /\ Len(call[c].verdicts) = 3
    /\ call[c].pc = "returned"

\* C5: the retry loop exits at the first attempt whose validator report has
\* no critical issue: that attempt is the last MIDI call and the last validator
\* call, no earlier report was clean, the attempts used equal its index, and
\* the only save is under the canonical name (the call then returns with that
\* file written, unless writeFile itself fails).
C5_ExitAtFirstCleanReport ==
  \A c \in Calls :
    TwoPhase(c) =>
      \A i \in DOMAIN call[c].validated :
        CleanReport(call[c].validated[i]) =>
          /\ i = Len(call[c].validated)
          /\ \A j \in 1..(i - 1) : ~CleanReport(call[c].validated[j])
          /\ call[c].midiCalls = call[c].validated[i].attempt
          /\ call[c].generationAttempt = call[c].validated[i].attempt
          /\ call[c].validatorCalls = i
          /\ Len(call[c].answers) = call[c].validated[i].attempt
          /\ call[c].pc \in {"writeFile", "returned", "threw"}
          /\ Len(call[c].saves) = 1
          /\ call[c].saves[1].path = CanonicalFile
          /\ call[c].pc = "threw" => call[c].error = "writeFile failed"
          /\ call[c].pc = "returned" => call[c].written = call[c].saves

\* C5 witness: limit 2, the report of attempt 1 is critical, the report of
\* attempt 2 is clean: accepted after exactly 2 attempts, canonical file written.
C5_Witness ==
  \E c \in Calls :
    /\ TwoPhase(c)
    /\ call[c].maxRetries = 2
    /\ Len(call[c].validated) = 2
    /\ call[c].validated[1].report = Some(ReportMismatch)
    /\ call[c].validated[2].report = Some(ReportFine)
    /\ call[c].generationAttempt = 2
    /\ call[c].pc = "returned"
    /\ call[c].written[1].path = CanonicalFile

\* The ways one attempt fails without an error being thrown.
AttemptFailures == {"noHeader", "noTrack", "tooShort", "critical", "validatorError"}

\* C6: whenever generateClipTwoPhase exhausts all its attempts without
\* acceptance (each attempt failing a structural check, getting a critical
\* report or a validator error), it returns and has written the best-effort
\* artifact under the invalid-marked name.
C6_ExhaustedReturnsWithArtifact ==
  \A c \in Calls :
    ( /\ TwoPhase(c)
      /\ Ended(c)
      /\ call[c].maxRetries >= 1
      /\ Len(call[c].verdicts) = call[c].maxRetries
      /\ \A i \in DOMAIN call[c].verdicts : call[c].verdicts[i] \in AttemptFailures
      /\ call[c].error # "writeFile failed" )
    => /\ call[c].pc = "returned"
       /\ Len(call[c].written) = 1
       /\ call[c].written[1].path = BestAttemptFile

\* C7: if every one of the maxRetries attempts yields structurally valid hex
\* whose validator report has a critical issue, the call uses exactly
\* maxRetries attempts, saves only under the invalid-marked name, never under
\* the canonical name, and returns (it throws only if writeFile itself fails).
C7_AllCriticalExhausts ==
  \A c \in Calls :
    (TwoPhase(c) /\ AllAttemptsCritical(c) /\ call[c].pc \in {"writeFile", "returned", "threw"})
    => /\ call[c].midiCalls = call[c].maxRetries
       /\ call[c].generationAttempt = call[c].maxRetries
       /\ Len(call[c].saves) = 1
       /\ call[c].saves[1].path = BestAttemptFile
       /\ call[c].saves[1].bytes = hexToBytes(Last(call[c].validated).hex).bytes
       /\ call[c].pc = "threw" => call[c].error = "writeFile failed" /\ call[c].written = <<>>
       /\ call[c].pc = "returned" => call[c].written = call[c].saves

\* C7 witness: limit 2, both reports critical: returned after 2 attempts with
\* only the best-attempt file written.
C7_Witness ==
  \E c \in Calls :
    /\ TwoPhase(c)
    /\ call[c].maxRetries = 2
    /\ AllAttemptsCritical(c)
    /\ call[c].midiCalls = 2
    /\ call[c].pc = "returned"
    /\ call[c].written[1].path = BestAttemptFile

\* C8: inside the retry loop an LLM response without a MIDI header is one
\* failed attempt: while attempts remain the call is not aborted by it.
C8_ExtractionMissContinues ==
  \A c \in Calls :
    ( /\ TwoPhase(c)
      /\ call[c].answers # <<>>
      /\ Len(call[c].answers) = call[c].midiCalls
      /\ ~extractMidiHex(Last(call[c].answers)).ok
      /\ call[c].midiCalls < call[c].maxRetries )
    => call[c].pc # "threw"

\* The last MIDI answer of the call passes the extractor and the header
\* checks, and its hex text does not decode.
LastAnswerUndecodable(c) ==
  /\ call[c].answers # <<>>
  /\ Len(call[c].answers) = call[c].midiCalls
  /\ LET extracted == extractMidiHex(Last(call[c].answers))
     IN  /\ extracted.ok
         /\ startsWith(toUpperCase(extracted.hex), MThdUpper)
         /\ includes(toUpperCase(extracted.hex), MTrkUpper)
         /\ ~hexToBytes(extracted.hex).ok

\* C9: inside the retry loop a hex decoding failure is one failed attempt:
\* while attempts remain the call is not aborted by it.
C9_DecodeFailureContinues ==
  \A c \in Calls :
    (TwoPhase(c) /\ LastAnswerUndecodable(c) /\ call[c].midiCalls < call[c].maxRetries)
    => call[c].pc # "threw"

\* C10: inside the retry loop a failure of the MIDI-generation LLM call
\* consumes one attempt: while attempts remain the call is not aborted by it.
C10_LlmFailureContinues ==
  \A c \in Calls :
    ( /\ TwoPhase(c)
      /\ call[c].midiCalls >= 1
      /\ call[c].midiCalls < call[c].maxRetries
      /\ call[c].error = "LLM call failed after 3 attempts" )
    => call[c].pc # "threw"

\* C11: a failure of the validator is one failed attempt. In the retry loop
\* the attempt is not accepted and the call is not aborted: the next attempt
\* starts if one remains, otherwise the best attempt is saved under the
\* invalid-marked name. In generateClip the file is saved under the
\* invalid-marked name. No save under the canonical name follows an attempt
\* whose validator failed.
C11_ValidatorFailureIsFailedAttempt ==
  \A c \in Calls :
    LET s == call[c]
        n == Len(s.verdicts)
    IN  /\ (\E i \in DOMAIN s.saves : s.saves[i].path = CanonicalFile)
             => (n >= 1 /\ s.verdicts[n] = "clean")
        /\ (n >= 1 /\ s.verdicts[n] = "validatorError" /\ s.midiCalls = n) =>
             /\ ~s.validationPassed
             /\ s.pc \in {"writeFile", "returned", "threw"}
             /\ TwoPhase(c) => n = s.maxRetries
             /\ Len(s.saves) = 1
             /\ s.saves[1].path = (IF TwoPhase(c) THEN BestAttemptFile ELSE InvalidFile)
             /\ s.pc = "threw" => s.error = "writeFile failed"
        /\ \A k \in DOMAIN s.verdicts :
             (TwoPhase(c) /\ s.verdicts[k] = "validatorError" /\ k < s.maxRetries)
               => s.midiCalls >= k + 1

\* C11 witness: limit 2, the validator failed on attempt 1 and passed attempt
\* 2: the call returned with the canonical file written.
C11_Witness ==
  \E c \in Calls :
    /\ TwoPhase(c)
    /\ call[c].maxRetries = 2
    /\ call[c].verdicts = <<"validatorError", "clean">>
    /\ call[c].pc = "returned"
    /\ call[c].written[1].path = CanonicalFile

\* C12: a failure of callLLM during the idea stage is fatal: the call has
\* thrown and released its slot, the idea stage was invoked once, no MIDI or
\* validator call was made and no file was saved.
C12_IdeaFailureIsFatal ==
  \A c \in Calls :
    (call[c].error = "LLM call failed after 3 attempts" /\ call[c].prompt = None)
    => /\ call[c].pc = "threw"
       /\ call[c].released = 1
       /\ call[c].ideaCalls = 1
       /\ call[c].midiCalls = 0
       /\ call[c].validatorCalls = 0
       /\ call[c].saves = <<>>
       /\ call[c].written = <<>>

\* C12 witness: a two-phase call whose idea stage failed has thrown.
C12_Witness ==
  \E c \in Calls :
    /\ TwoPhase(c)
    /\ call[c].maxRetries = 2
    /\ call[c].pc = "threw"
    /\ call[c].error = "LLM call failed after 3 attempts"
    /\ call[c].prompt = None
    /\ call[c].ideaCalls = 1

\* The errors thrown for a stage missing from config.stages.
ConfigurationErrors ==
  {"Missing idea generation stage in pipeline configuration",
   "Missing MIDI generation stage in pipeline configuration"}

\* C13: when config.stages lacks the idea-generation or the midi-generation
\* stage, a call that has been admitted has failed with the configuration
\* error and released its slot, and no collaborator was invoked.
C13_MissingStageFailsFirst ==
  \A c \in Calls :
    (Len(config.stages) < 2 /\ call[c].reserved = 1)
    => /\ call[c].pc = "threw"
       /\ call[c].error \in ConfigurationErrors
       /\ call[c].released = 1
       /\ call[c].ideaCalls = 0
       /\ call[c].midiCalls = 0
       /\ call[c].validatorCalls = 0

\* The report validateMidiHex returned for MIDI attempt k of a call, if any.
ReportOfAttempt(s, k) ==
  LET got == {i \in DOMAIN s.validated :
                s.validated[i].attempt = k /\ s.validated[i].report # None}
  IN  IF got = {} THEN None ELSE s.validated[CHOOSE i \in got : TRUE].report

\* C14: the prompt of MIDI attempt 1 carries no feedback; the prompt of an
\* attempt k > 1 carries the validation report of attempt k-1 verbatim, and
\* carries no report when attempt k-1 got none (never the report of an older
\* attempt).
C14_FeedbackIsPreviousReport ==
  \A c \in Calls :
    TwoPhase(c) =>
      \A k \in DOMAIN call[c].prompts :
        LET s        == call[c]
            previous == ReportOfAttempt(s, k - 1)
        IN  IF k > 1 /\ previous # None
              THEN s.prompts[k] = FeedbackPrompt(s.ideaAnswers[1], previous[1])
              ELSE s.prompts[k] = contextWithIdea(s.ideaAnswers[1])

\* The hex text passes the local structural checks: the MThd token sequence
\* at the start, the MTrk token sequence present, at least 14 decoded bytes.
StructurallyValid(hex) ==
  /\ startsWith(toUpperCase(hex), MThdUpper)
  /\ includes(toUpperCase(hex), MTrkUpper)
  /\ hexToBytes(hex).ok
  /\ Len(hexToBytes(hex).bytes) >= 14

\* For each sample answer of the MIDI stage: the hex text extracted from it
\* (empty if none) and whether that text passes the structural checks.
ChecksOfAnswer ==
  [response \in AllMidiTexts |->
     LET extracted == extractMidiHex(response)
     IN  [hex    |-> IF extracted.ok THEN extracted.hex ELSE <<>>,
          passes |-> extracted.ok /\ StructurallyValid(extracted.hex)]]

\* C15: validateMidiHex is invoked only on hex that is the extraction of the
\* attempt's answer and has passed the structural checks, at most once per
\* attempt; an attempt whose hex fails a check has no validator call.
C15_ValidatorAfterStructuralCheck ==
  \A c \in Calls :
    LET s == call[c] IN
    /\ s.validatorCalls = Len(s.validated)
    /\ \A i \in DOMAIN s.validated :
         LET v == s.validated[i] IN
         /\ v.attempt \in DOMAIN s.answers
         /\ ChecksOfAnswer[s.answers[v.attempt]].passes
         /\ v.hex = ChecksOfAnswer[s.answers[v.attempt]].hex
         /\ \A j \in DOMAIN s.validated : s.validated[j].attempt = v.attempt => j = i
    /\ \A k \in DOMAIN s.answers :
         ~ChecksOfAnswer[s.answers[k]].passes
           => \A i \in DOMAIN s.validated : s.validated[i].attempt # k

\* C15 witness: the hex of attempt 1 decoded to fewer than 14 bytes, attempt 2
\* passed the checks: the validator was invoked once, for attempt 2.
C15_Witness ==
  \E c \in Calls :
    /\ TwoPhase(c)
    /\ call[c].answers = <<RespShort, RespValidA>>
    /\ call[c].validatorCalls = 1
    /\ call[c].validated[1].attempt = 2
    /\ call[c].validated[1].report # None

\* C16: the idea stage is invoked at most once per call, only by a call
\* holding its slot, and exactly once before any MIDI-stage call; the text it
\* returned is the prompt field of the clip, unchanged, from then on and in
\* the returned clip.
C16_IdeaOnceAndStoredVerbatim ==
  \A c \in Calls :
    LET s == call[c] IN
    /\ s.ideaCalls <= 1
    /\ Len(s.ideaAnswers) <= s.ideaCalls
    /\ s.ideaCalls = 1 => s.reserved = 1
    /\ (s.reserved = 1 /\ Len(config.stages) >= 1) => s.ideaCalls = 1
    /\ s.midiCalls >= 1 => (s.ideaCalls = 1 /\ Len(s.ideaAnswers) = 1)
    /\ s.prompt = (IF s.ideaAnswers = <<>> THEN None ELSE Some(s.ideaAnswers[1]))
    /\ s.pc = "returned" => (s.ideaCalls = 1 /\ s.prompt = Some(s.ideaAnswers[1]))

\* C16 witness: a two-phase call returned a clip whose prompt is the idea text.
C16_Witness ==
  \E c \in Calls :
    /\ TwoPhase(c)
    /\ call[c].pc = "returned"
    /\ call[c].ideaAnswers = <<IdeaWaltz>>
    /\ call[c].prompt = Some(IdeaWaltz)
    /\ call[c].midiCalls = 2

LowerHexDigits == <<"0","1","2","3","4","5","6","7","8","9","a","b","c","d","e","f">>

\* The value of the one-character string d as a hexadecimal digit of either
\* case, or -1.
DigitValue(d) ==
  LET hit == {v \in 0..15 : LowerHexDigits[v + 1] = d
                             \/ (v >= 10 /\ <<"A","B","C","D","E","F">>[v - 9] = d)}
  IN  IF hit = {} THEN -1 ELSE CHOOSE v \in hit : TRUE

\* C18: for every byte array b, bytesToHex(b) is two lower-case hex digits
\* per byte, the digits of its value, with one space between bytes, and
\* hexToBytes(bytesToHex(b)) = b.
C18_RoundTrip ==
  codec.encoded =>
    /\ Len(codec.original) = (IF codec.bytes = <<>> THEN 0 ELSE 3 * Len(codec.bytes) - 1)
    /\ \A k \in DOMAIN codec.bytes :
         /\ codec.original[3 * k - 2] = LowerHexDigits[(codec.bytes[k] \div 16) + 1]
         /\ codec.original[3 * k - 1] = LowerHexDigits[(codec.bytes[k] % 16) + 1]
         /\ k < Len(codec.bytes) => codec.original[3 * k] = " "
    /\ codec.pc \in {"decoded", "saved"} =>
         (codec.result.ok /\ codec.result.bytes = codec.bytes)

\* C18 witness: the two bytes 10 and 255 were rendered as "0a ff" and decoded
\* back.
C18_Witness ==
  /\ codec.encoded
  /\ codec.bytes = <<10, 255>>
  /\ codec.text = <<"0","a"," ","f","f">>
  /\ codec.pc = "decoded"
  /\ codec.result.ok

\* The characters of a text that are not white space, in order.
NonWhiteSpace(s) == SelectSeq(s, LAMBDA ch : ch \notin {" ", "\n", "\t", "\r"})

\* C19: hexToBytes fails exactly when, white space removed, the number of
\* characters is odd or some 2-character group is not two hexadecimal
\* digits; otherwise it returns one byte per group, in order, each the
\* value of its group.
C19_DecodesExactlyValidHex ==
  codec.pc = "decoded" =>
    LET clean == NonWhiteSpace(codec.text)
        valid == /\ Len(clean) % 2 = 0
                 /\ \A i \in DOMAIN clean : DigitValue(clean[i]) >= 0
    IN  /\ codec.result.ok <=> valid
        /\ codec.result.ok =>
             /\ Len(codec.result.bytes) = Len(clean) \div 2
             /\ \A k \in DOMAIN codec.result.bytes :
                  codec.result.bytes[k]
                    = 16 * DigitValue(clean[2 * k - 1]) + DigitValue(clean[2 * k])

\* The bytes of createTestMidiFile's file.
TestMidiBytes ==
  <<77, 84, 104, 100, 0, 0, 0, 6, 0, 1, 0, 1, 1, 224, 77, 84, 114, 107, 0, 0, 0, 20, 0, 144, 60, 100, 131, 96, 128, 60, 0, 0, 255, 47, 0>>

\* C20: hexToBytes ignores white space: a text and the same text with one
\* more white-space character anywhere decode to the same bytes or both
\* fail; the indented multi-line text of createTestMidiFile decodes to the
\* bytes of its file, which saveMidiFile accepts.
C20_WhiteSpaceIgnored ==
  /\ codec.pc \in {"decoded", "saved"} =>
       /\ NonWhiteSpace(codec.text) = NonWhiteSpace(codec.original)
       /\ codec.first # None
       /\ codec.result.ok = codec.first[1].ok
       /\ codec.result.ok => codec.result.bytes = codec.first[1].bytes
  /\ (codec.original = TestMidiHex /\ codec.pc \in {"decoded", "saved"}) =>
       /\ codec.result.ok
       /\ codec.result.bytes = TestMidiBytes
       /\ codec.pc = "saved" => codec.saved = "written"

\* C20 witness: "4D" with a line break put between its digits decoded to the
\* byte 77 again.
C20_Witness ==
  /\ codec.original = <<"4","D">>
  /\ codec.text = <<"4","\n","D">>
  /\ codec.reformatted
  /\ codec.pc = "decoded"
  /\ codec.result.ok
  /\ codec.result.bytes = <<77>>

\* The byte array starts with the four bytes of "MThd".
HasMThdPrefix(bytes) ==
  /\ Len(bytes) >= 4
  /\ bytes[1] = 77 /\ bytes[2] = 84 /\ bytes[3] = 104 /\ bytes[4] = 100

\* C21: isValidMidi(bytes) is true exactly when bytes has at least 4
\* elements and starts with 4D 54 68 64, whatever follows: saveMidiFile goes
\* on to writeFile for such bytes and throws "Invalid MIDI data" for all
\* others.
C21_ValidIffMThdPrefix ==
  /\ codec.pc \in {"writeFile", "returned"} => HasMThdPrefix(codec.bytes)
  /\ (codec.pc = "threw" /\ codec.saved = "Invalid MIDI data") => ~HasMThdPrefix(codec.bytes)
  /\ codec.pc = "threw" => (codec.saved = "Invalid MIDI data" <=> ~HasMThdPrefix(codec.bytes))
  /\ codec.pc = "saved" =>
       (codec.saved = "written" <=> HasMThdPrefix(codec.result.bytes))

\* C21 witness: "MThd" followed by a byte was accepted.
C21_Witness ==
  /\ codec.bytes = <<77, 84, 104, 100, 109>>
  /\ codec.pc = "writeFile"

\* C22: saveMidiFile throws and writes nothing when the bytes do not pass
\* isValidMidi; when they pass and writeFile succeeds the file holds exactly
\* those bytes and the path is returned; when writeFile fails saveMidiFile
\* throws and nothing is written.
C22_SaveWritesOnlyValidBytes ==
  /\ ~isValidMidi(codec.bytes) => codec.file = None /\ codec.pc # "returned"
  /\ codec.file # None => codec.file = Some(codec.bytes)
  /\ codec.pc = "returned" =>
       (codec.saved = "written" /\ codec.file = Some(codec.bytes) /\ isValidMidi(codec.bytes))
  /\ codec.saved = "writeFile failed" => (codec.pc = "threw" /\ codec.file = None)
  /\ codec.saved = "Invalid MIDI data" => codec.file = None

\* C22 witness: writeFile failed for valid bytes and saveMidiFile threw.
C22_Witness ==
  /\ isValidMidi(codec.bytes)
  /\ codec.pc = "threw"
  /\ codec.saved = "writeFile failed"
  /\ codec.file = None

\* The text occurs in s.
Occurs(s, text) ==
  \E i \in 0..(Len(s) - Len(text)) : \A k \in 1..Len(text) : s[i + k] = text[k]

\* C23: extractMidiHex fails if and only if the response contains neither
\* "4D 54 68 64" nor "4d 54 68 64"; for every other response it returns a
\* string.
C23_FailsIffNoHeader ==
  helper.pc \in {"extracted", "again", "rewritten", "compared"} =>
    /\ helper.result.ok <=> (Occurs(helper.input, MThdUpper) \/ Occurs(helper.input, MThdLower))
    /\ ~helper.result.ok => helper.result.error = "No valid MIDI data found in the response"
    /\ helper.result.ok =>
         \A i \in DOMAIN helper.result.hex :
           helper.result.hex[i] \in Range(helper.input) \cup {" "}

\* C23 witness: a response with only the lower-case header, after prose, was
\* extracted.
C23_Witness ==
  /\ helper.pc = "extracted"
  /\ helper.input = <<"o","k"," ">> \o MThdLower \o <<" ","0","0">>
  /\ helper.result.ok

\* The result of extractMidiHex is in hand.
Extracted == helper.pc \in {"extracted", "again", "rewritten", "compared"} /\ helper.result.ok

\* Only hex digits and single spaces, no space at either end.
SingleSpacedHex(hex) ==
  /\ \A i \in DOMAIN hex : hex[i] \in HexChars \cup {" "}
  /\ \A i \in 1..(Len(hex) - 1) : ~(hex[i] = " " /\ hex[i + 1] = " ")
  /\ hex # <<>> => (hex[1] # " " /\ hex[Len(hex)] # " ")

\* C24: every string extractMidiHex returns contains only hex digits and
\* single spaces, without white space at either end, and starts with the
\* 4-byte header token sequence.
C24_OutputIsCleanHex ==
  Extracted =>
    /\ SingleSpacedHex(helper.result.hex)
    /\ startsWith(helper.result.hex, MThdUpper) \/ startsWith(helper.result.hex, MThdLower)

\* C25: the result is derived only from the text between the header and the
\* earliest end marker found at least 10 characters after the header (the
\* end of the text if there is none): a response that differs only before
\* the header, or only at or after that marker, gives the same result.
C25_OnlyTextUpToMarker ==
  helper.pc = "compared" =>
    /\ helper.second.ok
    /\ helper.second.hex = helper.result.hex

\* The extractor's cleanup: trim, delete every character that is neither a
\* hex digit nor white space, collapse each run of white space to one space.
Cleanup(text) == CollapseWhiteSpace(RemoveNonHex(trim(text)))

\* C26: an extractor output is a fixed point of the extractor's cleanup and
\* of the extractor: extractMidiHex(extractMidiHex(r)) = extractMidiHex(r)
\* for every response r on which extraction succeeds.
C26_ExtractionIdempotent ==
  helper.pc = "again" =>
    /\ helper.second.ok
    /\ helper.second.hex = helper.result.hex
    /\ Cleanup(helper.result.hex) = helper.result.hex

\* The report, in lower case, has one of the listed phrases or matches one
\* of the three compound heuristics.
NamesCriticalIssue(report) ==
  LET lower == toLowerCase(report)
      Has(text) == Occurs(lower, text)
  IN  \/ \E k \in DOMAIN criticalIssueKeywords : Has(criticalIssueKeywords[k])
      \/ Has(SameNotePhrase)
      \/ /\ Has(<<"t","r","a","c","k"," ","l","e","n","g","t","h">>)
         /\ \E word \in {<<"m","i","s","c","a","l","c","u","l","a","t","e","d">>, <<"i","n","c","o","r","r","e","c","t">>, <<"w","r","o","n","g">>, <<"m","i","s","m","a","t","c","h">>} :
              Has(word)
      \/ \A word \in {<<"n","o","t","e">>,
                      <<"t","u","r","n","e","d"," ","o","n">>,
                      <<"w","i","t","h","o","u","t">>,
                      <<"t","u","r","n","e","d"," ","o","f","f">>} :
           Has(word)

\* C27: checkForCriticalIssues(report) is true exactly when the lower-cased
\* report has a phrase of the critical list or matches one of the three
\* compound heuristics, in any order of the words; the same report in
\* capitals gets the same answer.
C27_CriticalIffPhraseOrHeuristic ==
  /\ helper.pc \in {"classified", "compared"} =>
       (helper.result <=> NamesCriticalIssue(helper.input))
  /\ helper.pc = "compared" => helper.second = helper.result

\* C27 witness: the four words of the third heuristic in another order, in
\* capitals, are classified as critical.
C27_Witness ==
  /\ helper.pc = "compared"
  /\ helper.input = <<" ","t","u","r","n","e","d"," ","o","f","f"," ","w","i","t","h","o","u","t"," ","t","u","r","n",
    "e","d"," ","o","n","n","o","t","e">>
  /\ helper.result
  /\ helper.second

\* The number of generate invocations that failed.
Failures == Cardinality({i \in DOMAIN helper.outcomes : helper.outcomes[i] = None})

\* The generate invocations made so far: one more than the completed ones
\* while one is in flight.
Invocations == Len(helper.outcomes) + (IF helper.pc = "generate" THEN 1 ELSE 0)

\* C28: callLLM invokes generate at most 3 times; it returns the text of the
\* first successful invocation, which is the last invocation; it throws
\* only after 3 failures in a row; the waits between failed invocations are
\* 1000 ms then 2000 ms, and no wait follows the last failure.
C28_AtMostThreeWithBackoff ==
  /\ Invocations <= 3
  /\ \A i \in DOMAIN helper.outcomes :
       helper.outcomes[i] # None => i = Len(helper.outcomes)
  /\ helper.pc = "returned" <=>
       (helper.outcomes # <<>> /\ Last(helper.outcomes) # None)
  /\ helper.pc = "returned" => helper.result = Last(helper.outcomes)
  /\ helper.pc = "threw" <=> Failures = 3
  /\ helper.pc = "threw" => helper.error = Some([attempts |-> 3, message |-> helper.lastError])
  /\ helper.waits = SubSeq(<<1000, 2000>>, 1, IF Failures < 2 THEN Failures ELSE 2)
  /\ helper.pc = "backoff" <=>
       (Failures \in {1, 2} /\ Invocations = Failures /\ Last(helper.outcomes) = None)

\* C28 witness: generate failed twice and answered the third time, after
\* waits of 1000 ms and 2000 ms.
C28_Witness ==
  /\ helper.pc = "returned"
  /\ helper.outcomes = <<None, None, Some(IdeaRiff)>>
  /\ helper.waits = <<1000, 2000>>
  /\ helper.result = Some(IdeaRiff)

Exhausted(c) ==
  /\ TwoPhase(c)
  /\ call[c].maxRetries >= 1
  /\ Len(call[c].verdicts) = call[c].maxRetries
  /\ \A i \in DOMAIN call[c].verdicts : call[c].verdicts[i] \in AttemptFailures
  /\ call[c].written # <<>>

\* C30: when the attempts are exhausted without acceptance, the bytes saved
\* as the best-effort artifact are those decoded from the hex extracted
\* from the last attempt's answer, and the report retained is the report of
\* the last attempt, never bytes or a report of an earlier attempt.
C30_BestEffortIsLastAttempt ==
  \A c \in Calls :
    Exhausted(c) =>
      LET s        == call[c]
          lastHex  == ChecksOfAnswer[Last(s.answers)].hex
          lastSeen == ReportOfAttempt(s, s.maxRetries)
      IN  /\ Len(s.answers) = s.maxRetries
          /\ Last(s.written).path = BestAttemptFile
          /\ hexToBytes(lastHex).ok
          /\ Last(s.written).bytes = hexToBytes(lastHex).bytes
          /\ s.validationReport = (IF lastSeen = None THEN <<>> ELSE lastSeen[1])

\* C31: every saveMidiFile invocation made by generateClip or
\* generateClipTwoPhase passes bytes that satisfy isValidMidi, so the
\* "Invalid MIDI data" guard never fires during a generation, whatever the
\* collaborators answer and whatever maxRetries is (0 included).
C31_SavedBytesAlwaysValid ==
  \A c \in Calls :
    /\ \A i \in DOMAIN call[c].saves : isValidMidi(call[c].saves[i].bytes)
    /\ call[c].error # "Invalid MIDI data"

\* C32: in every clip generateClipTwoPhase returns, rawMidiBytes is the
\* decoding of midiData: the hex text and the bytes come from the same
\* attempt.
C32_BytesDecodeReturnedHex ==
  \A c \in Calls :
    (TwoPhase(c) /\ call[c].pc = "returned") =>
      /\ call[c].midiData # None
      /\ call[c].rawMidiBytes # None
      /\ hexToBytes(call[c].midiData[1]).ok
      /\ call[c].rawMidiBytes[1] = hexToBytes(call[c].midiData[1]).bytes

\* The validateMidiHex invocations of a call whose report is free of
\* critical issues: the accepting ones.
Accepting(s) == {i \in DOMAIN s.validated : CleanReport(s.validated[i])}

\* C33: the bytes written to the canonical path are exactly hexToBytes of
\* the hex text the validator examined in the accepting attempt, and of no
\* other attempt.
C33_CanonicalBytesAreAcceptedHex ==
  \A c \in Calls :
    LET s == call[c] IN
    \A w \in DOMAIN s.written :
      s.written[w].path = CanonicalFile =>
        /\ Cardinality(Accepting(s)) = 1
        /\ \A i \in Accepting(s) :
             /\ s.validated[i].attempt = Len(s.answers)
             /\ s.validated[i].hex = ChecksOfAnswer[Last(s.answers)].hex
             /\ hexToBytes(s.validated[i].hex).ok
             /\ s.written[w].bytes = hexToBytes(s.validated[i].hex).bytes

\* C33 witness: attempt 1 got a critical report, attempt 2 answered another
\* file and was accepted: the canonical file holds the bytes of attempt 2,
\* which differ from those of attempt 1.
C33_Witness ==
  \E c \in Calls :
    /\ TwoPhase(c)
    /\ call[c].pc = "returned"
    /\ call[c].answers = <<RespValidA, RespValidB>>
    /\ call[c].written[1].path = CanonicalFile
    /\ call[c].written[1].bytes = hexToBytes(ChecksOfAnswer[RespValidB].hex).bytes
    /\ call[c].written[1].bytes # hexToBytes(ChecksOfAnswer[RespValidA].hex).bytes

\* The verdicts of an attempt that the structural check rejected.
StructuralRejections == {"noHeader", "noTrack", "tooShort"}

\* For each sample answer from which hex text is extracted: whether the
\* text starts with the header token sequence and whether it contains the
\* track-header token sequence (letters in either case), and the number of
\* bytes it decodes to (-1 if it does not decode).
StructureOfAnswer ==
  [response \in {r \in AllMidiTexts : extractMidiHex(r).ok} |->
     LET hex == extractMidiHex(response).hex
     IN  [header |-> \/ startsWith(hex, MThdUpper)
                     \/ startsWith(hex, MThdLower),
          track  |-> \/ Occurs(hex, MTrkUpper)
                     \/ Occurs(hex, <<"4","d"," ","5","4"," ","7","2"," ","6","b">>)
                     \/ Occurs(hex, <<"4","D"," ","5","4"," ","7","2"," ","6","b">>)
                     \/ Occurs(hex, <<"4","d"," ","5","4"," ","7","2"," ","6","B">>),
          length |-> IF hexToBytes(hex).ok THEN Len(hexToBytes(hex).bytes) ELSE -1]]

\* C34: an attempt's hex is rejected by the structural check exactly when it
\* does not start with the header token sequence, or does not contain the
\* track-header token sequence, or decodes to fewer than 14 bytes; hex with
\* the header and enough bytes but no track header is rejected for the
\* missing track header and for nothing else.
C34_StructuralRejectionIff ==
  \A c \in Calls :
    LET s == call[c] IN
    \A k \in DOMAIN s.verdicts :
      (k \in DOMAIN s.answers /\ s.answers[k] \in DOMAIN StructureOfAnswer) =>
        LET is == StructureOfAnswer[s.answers[k]] IN
        /\ s.verdicts[k] \in StructuralRejections
             <=> (~is.header \/ ~is.track \/ is.length \in 0..13)
        /\ (is.header /\ ~is.track) => s.verdicts[k] = "noTrack"
        /\ s.verdicts[k] = "noTrack" => ~is.track
        /\ s.verdicts[k] = "tooShort" => is.length \in 0..13
        /\ s.verdicts[k] = "noHeader" => ~is.header
        /\ (s.kind = "single" /\ s.verdicts[k] = "noTrack") =>
             (s.pc = "threw"
              /\ s.error = "Generated MIDI data is invalid (missing track header)")

\* C34 witness: a 14-byte file with the header and no track header was
\* rejected for the missing track header, and the next attempt was made.
C34_Witness ==
  \E c \in Calls :
    /\ TwoPhase(c)
    /\ call[c].answers = <<RespNoTrack, RespValidB>>
    /\ call[c].verdicts = <<"noTrack", "clean">>
    /\ StructureOfAnswer[RespNoTrack].length = 14

\* The offsets (from 0) at which the text occurs in s.
Offsets(s, text) ==
  {i \in 0..(Len(s) - Len(text)) : \A k \in 1..Len(text) : s[i + k] = text[k]}

\* The candidate substring of a response with an upper-case header: from the
\* first upper-case header up to the earliest end marker that starts at
\* least 10 characters after it, or to the end of the response.
Candidate(response) ==
  LET from    == Min(Offsets(response, MThdUpper))
      markers == UNION {Offsets(response, endMarkers[k]) : k \in DOMAIN endMarkers}
      to      == Min({i \in markers : i >= from + 10} \cup {Len(response)})
  IN  SubSeq(response, from + 1, to)

\* C35: for a response that has both the upper-case and the lower-case
\* header, extractMidiHex starts from the first upper-case one, also when a
\* lower-case one comes earlier, and whichever comes first the result is the
\* same truncation and cleanup of the candidate substring.
C35_UpperCaseHeaderWins ==
  (Extracted /\ Occurs(helper.input, MThdUpper) /\ Occurs(helper.input, MThdLower)) =>
    /\ helper.result.hex = Cleanup(Candidate(helper.input))
    /\ startsWith(helper.result.hex, MThdUpper)

\* C35 witness: a response whose lower-case header comes first, followed by
\* an upper-case header, a byte and an end marker, was extracted from the
\* upper-case header up to the marker.
C35_Witness ==
  /\ helper.pc = "extracted"
  /\ helper.input = MThdLower \o MThdUpper \o <<" ","0","0">> \o <<"\n","\n">>
  /\ helper.result.ok
  /\ helper.result.hex = MThdUpper \o <<" ","0","0">>
  /\ Min(Offsets(helper.input, MThdLower)) < Min(Offsets(helper.input, MThdUpper))

\* C36: checkForCriticalIssues is monotone under extension of the report:
\* when a report is classified as having critical issues, the report with
\* text added before or after it is classified as having critical issues
\* too.
C36_MonotoneUnderExtension ==
  helper.pc = "extended" =>
    /\ Occurs(helper.variant, helper.input)
    /\ helper.result => helper.second

\* C36 witness: a report classified as critical for the word "Corrupt" was
\* extended to "No Corrupt was not found" and is still classified as
\* critical.
C36_Witness ==
  /\ helper.pc = "extended"
  /\ helper.input = <<" ","C","o","r","r","u","p","t">>
  /\ helper.variant = <<"N","o"," "," ","C","o","r","r","u","p","t",
                        " ","w","a","s"," ","n","o","t"," ","f","o","u","n","d">>
  /\ helper.result
  /\ helper.second

\* What the collaborators gave a call that has ended: the texts of the LLM,
\* the reports of the validator (None for a failed validation), whether the
\* LLM gave up and whether writeFile failed.
InputsOf(s) ==
  [kind        |-> s.kind,
   maxRetries  |-> s.maxRetries,
   ideaAnswers |-> s.ideaAnswers,
   answers     |-> s.answers,
   reports     |-> [i \in DOMAIN s.validated |-> s.validated[i].report],
   llmGaveUp   |-> s.error = "LLM call failed after 3 attempts",
   writeFailed |-> s.error = "writeFile failed"]

\* What a call that has ended did: its collaborator calls, its decisions,
\* the clip it built, the files it wrote and how it ended.
OutcomeOf(s) ==
  [pc             |-> s.pc,
   error          |-> s.error,
   ideaCalls      |-> s.ideaCalls,
   midiCalls      |-> s.midiCalls,
   validatorCalls |-> s.validatorCalls,
   prompts        |-> s.prompts,
   validated      |-> s.validated,
   verdicts       |-> s.verdicts,
   passed         |-> s.validationPassed,
   saves          |-> s.saves,
   written        |-> s.written,
   prompt         |-> s.prompt,
   midiData       |-> s.midiData,
   rawMidiBytes   |-> s.rawMidiBytes]

\* C37: a failed write of debug output (a log of logLLMCall, the dump of
\* saveMidiDebugInfo) never changes the outcome of a generation: of two
\* calls that got the same from their collaborators, one with a failed
\* debug write and one without, both make the same collaborator calls,
\* reach the same decisions and write the same files.
C37_DebugFailureChangesNothing ==
  \A c1, c2 \in Calls :
    (/\ Ended(c1) /\ Ended(c2)
     /\ call[c1].debugFailed /\ ~call[c2].debugFailed
     /\ InputsOf(call[c1]) = InputsOf(call[c2]))
      => OutcomeOf(call[c1]) = OutcomeOf(call[c2])

\* C37 witness: two calls got the same accepted answer; the debug writes of
\* one failed, those of the other did not; both wrote the canonical file.
C37_Witness ==
  \E c1, c2 \in Calls :
    /\ call[c1].pc = "returned" /\ call[c2].pc = "returned"
    /\ TwoPhase(c1) /\ TwoPhase(c2)
    /\ call[c1].debugFailed /\ ~call[c2].debugFailed
    /\ call[c1].answers = <<RespValidA>> /\ call[c2].answers = <<RespValidA>>
    /\ call[c1].written = <<[path |-> CanonicalFile, bytes |-> call[c1].midiBytes]>>
    /\ call[c2].written = call[c1].written

\* The text is the word VALID, its letters in either case, with nothing but
\* white space around it.
ExactlyValid(text) ==
  \E i \in 0..Len(text) :
    /\ i + 5 <= Len(text)
    /\ \A k \in 1..5 :
         text[i + k] \in {<<"V","A","L","I","D">>[k], <<"v","a","l","i","d">>[k]}
    /\ \A k \in (1..i) \cup ((i + 6)..Len(text)) : text[k] \in WhiteSpace

\* C38: in the two-step validator the detailed call of generate is made
\* only when the quick validation did not answer exactly VALID (after trim
\* and upper-casing); on VALID the report is the fixed no-issues message,
\* which the classifier finds free of critical issues; an error of the
\* quick call counts as invalid and is not propagated.
C38_DetailedOnlyAfterQuickRejects ==
  LET v == helper
      answeredValid == v.quick # None /\ ExactlyValid(v.quick[1])
  IN  v.pc \notin {"idle", "quick"} =>
        /\ v.generateCalls \in {<<"quick">>, <<"quick", "detailed">>}
        /\ Len(v.generateCalls) = 2 <=> ~answeredValid
        /\ v.isValid = Some(answeredValid)
        /\ (answeredValid /\ v.pc \in {"returned", "classified"}) => v.result = Some(validMessage)
        /\ (answeredValid /\ v.pc = "classified") => v.critical = Some(FALSE)
        /\ v.quickFailed =>
             /\ v.quick = None
             /\ v.error \in {"", "generate failed", "writeFile failed"}
             /\ v.pc \in {"returned", "classified"} => v.result \in {Some(r) : r \in AllReportTexts}
        /\ v.pc = "threw" => (v.result = None /\ v.error \in {"generate failed", "writeFile failed"})

\* C38 witness: the quick validation answered " valid" and a line break;
\* no detailed call was made, the fixed message was saved and returned,
\* and the classifier found no critical issue in it.
C38_Witness ==
  /\ helper.pc = "classified"
  /\ helper.quick = Some(<<" ","v","a","l","i","d","\n">>)
  /\ helper.generateCalls = <<"quick">>
  /\ helper.written = Some(formattedOutput(validMessage))
  /\ helper.result = Some(validMessage)
  /\ helper.critical = Some(FALSE)

=============================================================================
